---- MODULE Spec2Model ----
(***************************************************************************)
(* GoFaas: the asynchronous execution pipeline.                            *)
(*                                                                         *)
(*   - RedisQueue  (internal/messaging/redis.go): three Redis lists per    *)
(*     queue, holding the JSON serialisation of messaging.Message.         *)
(*   - invocation.Service (internal/core/invocation): InvokeAsync,         *)
(*     UpdateInvocationStatus, UpdateInvocationResult over the invocations *)
(*     table (internal/storage/metadata/postgres.go).                      *)
(*   - worker.Worker (internal/worker): processNextMessage and             *)
(*     executeFunction, one message at a time per worker.                  *)
(*                                                                         *)
(* The ready list is a sequence whose index 1 is the list head (the side   *)
(* LPUSH writes to) and whose last index is the tail (the side RPOP reads).*)
(* The processing and dead-letter lists are only ever written with LPUSH   *)
(* and LREM-by-value and no operation reads their order, so they are kept  *)
(* as bags of stored strings.                                              *)
(*                                                                         *)
(* Specifications:                                                         *)
(*   Spec         InvokeAsync, the queue and the workers; the function     *)
(*                invoked stays registered and Execute is one step.        *)
(*   SpecClock    Spec, one invocation, the wall clock advancing.          *)
(*   SpecEnqueueFail  SpecDelete, one invocation, Enqueue returning errors.*)
(*   SpecPayload  Spec with messages whose payload does not parse.         *)
(*   SpecDelete   Spec with function.Service.DeleteFunction and InvokeAsync*)
(*                calls for functions that are not registered.             *)
(*   SpecFunctions  function.Service.CreateFunction, UpdateFunction and    *)
(*                DeleteFunction with the code store, and the worker's     *)
(*                code lookup.                                             *)
(*   SpecRuntime  one worker with ContainerRuntime.Execute taken apart     *)
(*                (internal/worker/runtime) and the shutdown of main.      *)
(*   SpecSimple   the workers with SimpleRuntime.Execute taken apart.       *)
(*   SpecService  the two update operations of invocation.Service called   *)
(*                by concurrent callers.                                   *)
(*   SpecLive     Spec without crashes, with weak fairness of the workers' *)
(*                loops and of InvokeAsync's enqueue.                      *)
(*   SpecSteady   Spec without crashes, with messages that do not parse    *)
(*                and the shutdown of main.                                *)
(*   SpecTimeout  the timeout of an execution from InvokeAsync to          *)
(*                executeFunction, with UpdateFunction in between.         *)
(*   SpecLogs     the log stream of a container from docker to the result. *)
(*   SpecRate     concurrent requests through RateLimitMiddleware.         *)
(***************************************************************************)
EXTENDS Integers, Sequences, FiniteSets, Bags, TLC

\* ---------------------------------------------------------------- bounds
\* Number of InvokeAsync calls that create an invocation.
MaxInvocations == 2
\* Number of worker processes draining the queue.
NumWorkers == 2
\* Largest reading of the wall clock.
MaxClock == 2

\* ------------------------------------------------------ program constants
\* worker.processNextMessage: "if msg.Attempts < 3".
MaxAttempts == 3

Workers == 1..NumWorkers
InvocationIDs == 1..MaxInvocations

\* types.ExecutionStatus
StatusPending == "pending"
StatusRunning == "running"
StatusCompleted == "completed"
StatusFailed == "failed"
StatusTimeout == "timeout"

\* ExecutionStatus.IsTerminal
IsTerminal(s) == s \in {StatusCompleted, StatusFailed, StatusTimeout}

\* Go's nil / SQL NULL for the optional columns and pointers.
Nil == "nil"
NullTime == -1

VARIABLES
    ready,        \* Redis list <prefix>:queue:faas_executions
    processing,   \* Redis list <prefix>:processing:faas_executions
    deadLetter,   \* Redis list <prefix>:dead_letter:faas_executions
    invocations,  \* the invocations table: invocation id -> row
    nextID,       \* number of invocation ids generated so far
    enqueueing,   \* InvokeAsync calls between the row insert and the enqueue
    now,          \* the wall clock read by time.Now()
    pc,           \* per worker: position in processNextMessage
    msg,          \* per worker: the *Message returned by Dequeue
    req,          \* per worker: execReq.InvocationID parsed from the payload
    inv,          \* per worker: the *Invocation read by GetByID
    res,          \* per worker: the *ExecutionResult of executeFunction
    runErr,       \* per worker: UpdateInvocationStatus(running) returned an error
    updErr,       \* per worker: UpdateInvocationResult returned an error
    acked,        \* history: message ids for which Ack has returned
    deliveries,   \* history: message id -> number of Dequeue calls that returned it
    executed,     \* history: invocation id -> number of structured results obtained
    functions,    \* the functions table: ids of the registered functions
    rt,           \* per worker: the state of the runtime's Execute call
    stopped,      \* per worker process: main received a shutdown signal and called Stop() and cancel()
    rejected,     \* history: function ids for which InvokeAsync returned NotFound
    fnCode,       \* the functions table: function id -> the row's Code columns
    blobs,        \* the code store: location -> the bytes of the file "code"
    calls,        \* per caller: a function.Service call or a worker's read in progress
    staging,      \* the directory <workDir>/<function id> of the simple runtime
    orphaned,     \* history: invocation ids whose Enqueue in InvokeAsync returned an error
    fnTimeout,    \* functions.timeout_seconds of TheFunction (fn.Config.Timeout)
    texec,        \* per invocation: the timeout from InvokeRequest to ExecutionSpec
    clogs,        \* the log stream of a container, from docker to the result
    zset,         \* Redis sorted set of one rate-limit key: members (= scores)
    rclock,       \* the clock read by time.Now() in checkRateLimit
    rl,           \* per HTTP handler: position in Middleware, now and count
    rstarted,     \* number of requests received for the key
    passed        \* history: per timestamp, the requests passed to next.ServeHTTP

vars == <<ready, processing, deadLetter, invocations, nextID, enqueueing, now,
          pc, msg, req, inv, res, runErr, updErr, acked, deliveries, executed,
          functions, rt, stopped, rejected, fnCode, blobs, calls, staging,
          orphaned, fnTimeout, texec, clogs, zset, rclock, rl, rstarted, passed>>

queueVars == <<ready, processing, deadLetter>>
localVars == <<msg, req, inv, res, runErr, updErr>>
histVars == <<acked, deliveries, executed>>
logVars == <<clogs>>
rateVars == <<zset, rclock, rl, rstarted, passed>>
sideVars == <<fnTimeout, texec, logVars, rateVars>>
extVars == <<orphaned, sideVars>>
auxVars == <<rejected, fnCode, blobs, calls, staging, extVars>>
envVars == <<functions, rt, stopped, auxVars>>

\* ------------------------------------------------------------- messages
\* messaging.Message in memory. payload stands for the serialised
\* ExecutionRequest: the invocation id it names. reason and dlAt are the
\* headers "dead_letter_reason" and "dead_lettered_at" (Nil/NullTime: absent).
NewMessage(id, payload) ==
    [id |-> id, payload |-> payload, attempts |-> 0, reason |-> Nil, dlAt |-> NullTime]

\* A nil *Message.
NilMessage ==
    [id |-> 0, payload |-> 0, attempts |-> 0, reason |-> Nil, dlAt |-> NullTime]

\* json.Marshal(message): the string stored in a Redis list. Two messages
\* serialise to the same string exactly when all their fields agree.
Marshal(m) == <<m.id, m.payload, m.attempts, m.reason, m.dlAt>>

\* json.Unmarshal([]byte(result), &message)
Unmarshal(s) ==
    [id |-> s[1], payload |-> s[2], attempts |-> s[3], reason |-> s[4], dlAt |-> s[5]]

\* ---------------------------------------------------------- Redis lists
\* LPUSH key value, on the ready list.
LPush(list, v) == <<v>> \o list

\* LPUSH key value, on a list kept as a bag.
LPushBag(bag, v) == bag (+) SetToBag({v})

\* LREM key 1 value: removes one element equal to value, if there is any.
LRem(bag, v) == IF BagIn(v, bag) THEN bag (-) SetToBag({v}) ELSE bag

\* The ids of the messages stored in the ready list.
IdsOf(list) == {list[k][1] : k \in 1..Len(list)}

\* The ids of the messages stored in a list kept as a bag.
IdsOfBag(bag) == {s[1] : s \in BagToSet(bag)}

\* ----------------------------------------------------------- RedisQueue
\* RedisQueue.Enqueue: a new message with Attempts = 0, LPUSHed on the ready list.
Enqueue(rdy, id, payload) == LPush(rdy, Marshal(NewMessage(id, payload)))

\* Mutant of DequeueReady: the tail element is read and left in ready
\* (LINDEX in place of the pop).
DequeueReady_Peek(rdy) == rdy

\* RedisQueue.Dequeue, BRPOPLPUSH source side: the tail element leaves ready.
DequeueReady(rdy) == SubSeq(rdy, 1, Len(rdy) - 1)

\* Mutant of DequeueProcessing: a plain pop (BRPOP) that remembers nothing.
DequeueProcessing_PopOnly(proc, raw) == proc

\* RedisQueue.Dequeue, BRPOPLPUSH destination side: the element, as stored,
\* is pushed on the head of processing.
DequeueProcessing(proc, raw) == LPushBag(proc, raw)

\* RedisQueue.Dequeue: the message handed to the caller is the stored one
\* with Attempts incremented in memory.
DequeueMessage(raw) == [Unmarshal(raw) EXCEPT !.attempts = @ + 1]

\* RedisQueue.Ack: LREM processing 1 json.Marshal(message)
AckProcessing(proc, m) == LRem(proc, Marshal(m))

\* RedisQueue.Nack, first command of the pipeline: LREM processing 1 data
NackProcessing(proc, m) == LRem(proc, Marshal(m))

\* Mutant of NackReady: the message is pushed on the end workers pop from
\* (RPUSH).
NackReady_Tail(rdy, m) == Append(rdy, Marshal(m))

\* RedisQueue.Nack, second command of the pipeline: LPUSH queue data
NackReady(rdy, m) == LPush(rdy, Marshal(m))

\* RedisQueue.DeadLetter: the reason and the timestamp are written into the
\* message's headers before it is serialised.
DeadLetterMessage(m, reason, t) == [m EXCEPT !.reason = reason, !.dlAt = t]

\* RedisQueue.DeadLetter, first command of the pipeline: LREM processing 1 data
DeadLetterProcessing(proc, m) == LRem(proc, Marshal(m))

\* RedisQueue.DeadLetter, second command: LPUSH dead_letter data
DeadLetterPush(dl, m) == LPushBag(dl, Marshal(m))

\* ------------------------------------------------- invocations (MS rows)
\* A row of the invocations table, as InvokeAsync inserts it.
NewInvocation(t) ==
    [status |-> StatusPending, result |-> Nil, error |-> Nil, metrics |-> Nil,
     createdAt |-> t, startedAt |-> NullTime, completedAt |-> NullTime]

\* A nil *Invocation.
NilInvocation ==
    [status |-> Nil, result |-> Nil, error |-> Nil, metrics |-> Nil,
     createdAt |-> NullTime, startedAt |-> NullTime, completedAt |-> NullTime]

\* A nil *ExecutionResult.
NilResult == [status |-> Nil, result |-> Nil, error |-> Nil, metrics |-> Nil]

\* What executeFunction returns when the runtime produced a structured
\* result: COMPLETED with the output or with none (no logs, or logs that
\* could not be read), FAILED for a non-zero exit, an unknown runtime tag or
\* an image that could not be ensured, and TIMEOUT.
ExecutionResults ==
    { [status |-> StatusCompleted, result |-> "json", error |-> Nil, metrics |-> "m"],
      [status |-> StatusCompleted, result |-> Nil, error |-> Nil, metrics |-> "m"],
      [status |-> StatusFailed, result |-> Nil, error |-> "RuntimeError", metrics |-> "m"],
      [status |-> StatusFailed, result |-> Nil, error |-> "UnsupportedRuntime",
       metrics |-> "m"],
      [status |-> StatusFailed, result |-> Nil, error |-> "ImageError", metrics |-> "m"],
      [status |-> StatusTimeout, result |-> Nil, error |-> "TimeoutError", metrics |-> "m"] }

\* PostgresRepository.GetInvocationByID
GetInvocationByID(table, id) ==
    IF id \in DOMAIN table THEN table[id] ELSE NilInvocation

\* PostgresRepository.UpdateInvocation: UPDATE ... WHERE id = $1 replaces the
\* mutable columns; no row is touched when the id is absent.
UpdateInvocation(table, id, row) ==
    IF id \in DOMAIN table
    THEN [table EXCEPT ![id] =
             [@ EXCEPT !.status = row.status, !.result = row.result,
                       !.error = row.error, !.metrics = row.metrics,
                       !.startedAt = row.startedAt, !.completedAt = row.completedAt]]
    ELSE table

\* Mutant of ApplyStatus: StartedAt is stamped on every transition to
\* RUNNING, also when it is already set.
ApplyStatus_AlwaysStamp(row, status, t) ==
    [row EXCEPT !.status = status,
                !.startedAt = IF status = StatusRunning THEN t ELSE @,
                !.completedAt = IF IsTerminal(status) /\ @ = NullTime THEN t ELSE @]

\* Service.UpdateInvocationStatus, between GetByID and Update.
ApplyStatus(row, status, t) ==
    [row EXCEPT !.status = status,
                !.startedAt = IF status = StatusRunning /\ @ = NullTime THEN t ELSE @,
                !.completedAt = IF IsTerminal(status) /\ @ = NullTime THEN t ELSE @]

\* Service.UpdateInvocationResult, between GetByID and Update.
ApplyResult(row, r, t) ==
    [row EXCEPT !.status = r.status, !.result = r.result,
                !.error = r.error, !.metrics = r.metrics,
                !.startedAt = IF @ = NullTime THEN t ELSE @,
                !.completedAt = t]

\* ------------------------------------------------------------ functions
\* The ids of the functions table. Every invocation of the model invokes
\* the one function TheFunction; the other id is that of a function that is
\* registered by CreateFunction only.
FunctionIDs == {1, 2}
TheFunction == 1

\* The bodies of function code, as bytes: the one every function is created
\* with here and a shorter one to update it to. NoCode: no file (Retrieve
\* fails), or no code in a request. EmptyCode: a file that holds nothing.
InitialCode == <<1, 1>>
OtherCode == <<2>>
Codes == {InitialCode, OtherCode}
NoCode == <<0>>
EmptyCode == <<>>

\* utils.SHA256Hash: distinct code has distinct hashes.
SHA256Hash(code) == <<"sha256", code>>

\* LocalStorage.Store: the location returned, filepath.Join(functionID, "code").
CodeLocation(f) == <<f, "code">>

Locations == {CodeLocation(f) : f \in FunctionIDs}

\* The Code columns of a functions row (Source, Checksum), as CreateFunction
\* fills them.
FunctionRow(f, code) == [source |-> CodeLocation(f), checksum |-> SHA256Hash(code)]

\* A nil *types.Function.
NilFunction == [source |-> Nil, checksum |-> Nil]

\* The callers of function.Service and of the worker's code lookup.
NumCallers == 2
Callers == 1..NumCallers

\* No call in progress. A call has its position, the code it writes or has
\* read, the row it holds, and held: the bytes of the file its descriptor
\* is open on once that file has been removed from its directory (NoCode
\* while the file is in place, or no descriptor is open).
IdleCall == [pc |-> "idle", code |-> NoCode, fn |-> NilFunction, held |-> NoCode]

\* The call has a descriptor open: os.WriteFile between its open and its
\* close, os.ReadFile between its open and the end of its reads.
HasDescriptor(call) == call.pc \in {"createWrite", "updateWrite", "reading"}

\* os.RemoveAll while descriptors are open: the name is removed, and the
\* file stays, with what it holds, for the descriptors open on it.
\* store is the code store before the removal and removed the one after.
Unlink(cs, store, removed) ==
    [c \in DOMAIN cs |->
        IF /\ HasDescriptor(cs[c])
           /\ cs[c].held = NoCode
           /\ store[cs[c].fn.source] # NoCode
           /\ removed[cs[c].fn.source] = NoCode
        THEN [cs[c] EXCEPT !.held = store[cs[c].fn.source]]
        ELSE cs[c]]

\* The file the descriptor of a call is open on: the one at the location,
\* or the one that was removed from there while the descriptor was open.
DescriptorFile(store, call) ==
    IF call.held # NoCode THEN call.held ELSE store[call.fn.source]

\* ------------------------------------------------ the execution timeout
\* Durations a client or an operator may give; NilTimeout is the nil
\* *time.Duration.
MaxTimeout == 3
Timeouts == 1..MaxTimeout
NilTimeout == 0
DefaultTimeout == 1

\* encoding/json of the `json:"timeout"` field of ExecutionRequest: a nil
\* pointer is null, a duration is its number.
MarshalTimeout(t) == IF t = NilTimeout THEN <<"null">> ELSE <<"number", t>>
UnmarshalTimeout(j) == IF j[1] = "null" THEN NilTimeout ELSE j[2]

\* No timeout has been carried for an invocation yet.
NoExec == [pc |-> "none", override |-> NilTimeout, wire |-> MarshalTimeout(NilTimeout),
           resolved |-> NilTimeout, used |-> NilTimeout]

\* The function is registered with DefaultTimeout and nothing is invoked.
InitTimeout ==
    /\ fnTimeout = DefaultTimeout
    /\ texec = [i \in 1..MaxInvocations |-> NoExec]

\* ------------------------------------------------------- container logs
\* Bounds of the log streams: frames per stream, bytes per payload, and the
\* byte values of the payloads (two of them are values a header holds).
MaxFrames == 2
MaxPayload == 2
LogBytes == {0, 1, 65}
StreamTypes == {1, 2}

\* The header docker writes before each payload of a multiplexed stream:
\* [stream_type, 0, 0, 0, size1, size2, size3, size4], the size big-endian.
Header(stream, n) ==
    <<stream, 0, 0, 0,
      (n \div 16777216) % 256, (n \div 65536) % 256, (n \div 256) % 256, n % 256>>

\* A multiplexed stream: each frame is a header followed by its payload.
RECURSIVE Multiplex(_)
Multiplex(frames) ==
    IF frames = <<>> THEN <<>>
    ELSE Header(Head(frames).stream, Len(Head(frames).payload))
             \o Head(frames).payload \o Multiplex(Tail(frames))

\* The loop of stripDockerLogHeaders from offset i (offsets from 0).
RECURSIVE StripFrom(_, _)
StripFrom(l, i) ==
    IF i >= Len(l) THEN <<>>
    ELSE IF i + 8 > Len(l) THEN SubSeq(l, i + 1, Len(l))
    ELSE LET size == l[i + 5] * 16777216 + l[i + 6] * 65536 + l[i + 7] * 256 + l[i + 8]
             j == i + 8
         IN  IF j + size <= Len(l)
             THEN SubSeq(l, j + 1, j + size) \o StripFrom(l, j + size)
             ELSE SubSeq(l, j + 1, Len(l))

\* Mutant of stripDockerLogHeaders: the first header only is removed.
stripDockerLogHeaders_FirstOnly(l) ==
    IF Len(l) < 8 THEN l ELSE SubSeq(l, 9, Len(l))

stripDockerLogHeaders(l) == IF Len(l) = 0 THEN l ELSE StripFrom(l, 0)

\* No container has run.
NoLogs == [pc |-> "none", frames |-> <<>>, raw |-> <<>>, readErr |-> FALSE,
           out |-> <<>>, exitCode |-> 0, status |-> Nil, result |-> <<>>]

InitLogs == clogs = NoLogs

\* ------------------------------------------------------- rate limiting
\* The configuration of the middleware, scaled, and the bounds of its runs:
\* concurrent handlers, requests on the key, and the range of the clock.
RequestsPerWindow == 2
WindowDuration == 3
NumHandlers == 2
MaxRequests == 4
MaxRateClock == 3
Handlers == 1..NumHandlers
RateTimes == 0..MaxRateClock

\* A handler that serves no request.
IdleHandler == [pc |-> "idle", now |-> 0, count |-> 0]

\* No request has been received for the key.
InitRate ==
    /\ zset = {}
    /\ rclock = 0
    /\ rl = [h \in Handlers |-> IdleHandler]
    /\ rstarted = 0
    /\ passed = [t \in RateTimes |-> 0]

\* The initial state of the components that stand beside the queue.
SideInit == InitTimeout /\ InitLogs /\ InitRate

\* The call of caller c holds a function whose code is at location loc.
HoldsLocation(c, loc) == calls[c].fn # NilFunction /\ calls[c].fn.source = loc

\* A directory of the work directory: whether it exists and whether the
\* code file was written into it.
NoDirectory == [exists |-> FALSE, code |-> FALSE]

\* ------------------------------------------------- ContainerRuntime state
\* The locals of one ContainerRuntime.Execute call and the two resources it
\* creates.
\*   pc        position in Execute ("idle": no call in progress)
\*   tag       spec.Runtime, the runtime tag of the function
\*   image     EnsureImage: "none" (not called), "ok", "failed"
\*   dir       the staging directory execDir: "none", "present", "removed"
\*   path      execDir as SimpleRuntime computes it (Nil: not computed)
\*   container "none", "created", "running", "exited", "killed", "removed"
\*   ctxErr    execCtx.Err(): "none", "deadline" (DeadlineExceeded), "canceled"
\*   code      the status code the container's process ended with
\*   waited    what the select of WaitContainer received: "none", "status",
\*             "error", "done"
\*   early     the status was received while execCtx was not done
\*   exitCode  the exit code WaitContainer returned (-1 with an error)
\*   killSent  KillContainer was called under a context that is not done
\*   killed    the daemon carried out the SIGKILL on the running container
\*   stats     GetContainerStats: "none" (not called), "ok", "failed"
\*   out       how Execute ended: "none", "result", "error", "panic"
\*   result    the *ExecutionResult returned
RtIdle ==
    [pc |-> "idle", tag |-> Nil, image |-> "none", dir |-> "none", path |-> Nil, container |-> "none", ctxErr |-> "none",
     code |-> -1, waited |-> "none", early |-> FALSE, exitCode |-> -1,
     killSent |-> FALSE, killed |-> FALSE, stats |-> "none", out |-> "none", result |-> NilResult,
     rmContainer |-> "none", rmDir |-> "none", started |-> "none"]

\* ------------------------------------------------------------------ Init
InitPipeline ==
    /\ ready = <<>>
    /\ processing = EmptyBag
    /\ deadLetter = EmptyBag
    /\ invocations = <<>>
    /\ nextID = 0
    /\ enqueueing = {}
    /\ now = 0
    /\ pc = [w \in Workers |-> "idle"]
    /\ msg = [w \in Workers |-> NilMessage]
    /\ req = [w \in Workers |-> 0]
    /\ inv = [w \in Workers |-> NilInvocation]
    /\ res = [w \in Workers |-> NilResult]
    /\ runErr = [w \in Workers |-> FALSE]
    /\ updErr = [w \in Workers |-> FALSE]
    /\ acked = {}
    /\ deliveries = [i \in InvocationIDs |-> 0]
    /\ executed = [i \in InvocationIDs |-> 0]
    /\ functions = {TheFunction}
    /\ rt = [w \in Workers |-> RtIdle]
    /\ stopped = [w \in Workers |-> FALSE]
    /\ rejected = {}
    /\ fnCode = [f \in FunctionIDs |->
                 IF f = TheFunction THEN FunctionRow(f, InitialCode) ELSE NilFunction]
    /\ blobs = [l \in Locations |->
                IF l = CodeLocation(TheFunction) THEN InitialCode ELSE NoCode]
    /\ calls = [c \in Callers |-> IdleCall]
    /\ staging = NoDirectory
    /\ orphaned = {}

Init == InitPipeline /\ SideInit

\* ----------------------------------------------------- Service.InvokeAsync
\* Mutant of FunctionExists: the lookup finds a row for every id.
FunctionExists_Always(f) == TRUE

\* PostgresRepository.GetByID on the functions table: a row is found (nil
\* error); otherwise sql.ErrNoRows is returned as NotFound.
FunctionExists(f) == f \in functions

\* InvokeAsync up to the row insert: functionRepo.GetByID finds the function,
\* a fresh id is generated and the PENDING row is created.
InvokeCreate ==
    /\ FunctionExists(TheFunction)
    /\ nextID < MaxInvocations
    /\ nextID' = nextID + 1
    /\ invocations' = [i \in DOMAIN invocations \cup {nextID'} |->
                          IF i = nextID' THEN NewInvocation(now) ELSE invocations[i]]
    /\ enqueueing' = enqueueing \cup {nextID'}
    /\ UNCHANGED <<queueVars, now, pc, localVars, histVars>>
    /\ UNCHANGED envVars

\* The function ids InvokeAsync is called with: the id of the function,
\* which is registered at first and missing once it has been deleted.
RequestedIDs == {1}

\* InvokeAsync with a function id functionRepo.GetByID does not find: the
\* NotFound error is returned before anything is written.
InvokeMissing(f) ==
    /\ ~FunctionExists(f)
    /\ rejected' = rejected \cup {f}
    /\ UNCHANGED <<queueVars, invocations, nextID, enqueueing, now, pc, localVars,
                   histVars, functions, rt, stopped, fnCode, blobs, calls, staging,
                   extVars>>

\* InvokeAsync from the row insert on: the execution request is enqueued.
InvokeEnqueue(i) ==
    /\ i \in enqueueing
    /\ ready' = Enqueue(ready, i, i)
    /\ enqueueing' = enqueueing \ {i}
    /\ UNCHANGED <<processing, deadLetter, invocations, nextID, now, pc, localVars,
                   histVars>>
    /\ UNCHANGED envVars

\* InvokeAsync from the row insert on, queue.Enqueue returns an error:
\* InternalError is returned to the caller and the row is left as it was
\* inserted. RedisQueue.Enqueue returns whatever error LPush gives: the
\* command did not reach the server (nothing was pushed), or the server
\* carried it out and its reply was lost (the message is in the list).
InvokeEnqueueFails(i) ==
    /\ i \in enqueueing
    /\ \E pushed \in BOOLEAN :
          ready' = IF pushed THEN Enqueue(ready, i, i) ELSE ready
    /\ enqueueing' = enqueueing \ {i}
    /\ orphaned' = orphaned \cup {i}
    /\ UNCHANGED <<processing, deadLetter, invocations, nextID, now, pc, localVars,
                   histVars, functions, rt, stopped, rejected, fnCode, blobs, calls,
                   staging, sideVars>>

\* ---------------------------------------------------------------- worker
\* The outcomes of a call worker w makes with its context (a query of the
\* metadata store, a call of the docker daemon): it succeeds or fails, and
\* it fails once the context has been cancelled.
CallOutcomes(w) == IF stopped[w] THEN {FALSE} ELSE BOOLEAN

\* Mutant of AfterExecute: only a COMPLETED result is final, a FAILED or
\* TIMEOUT result is handled like an execution error and retried.
AfterExecute_RetryFailures(r) ==
    IF r.status = StatusCompleted THEN "resultRead" ELSE "failed"

\* processNextMessage after executeFunction returned a result and no error:
\* whatever the result's status, the next step is UpdateInvocationResult.
AfterExecute(r) == "resultRead"

\* Mutant of ShouldRetry: the comparison is off by one.
ShouldRetry_OffByOne(m) == m.attempts <= MaxAttempts

\* processNextMessage: "if msg.Attempts < 3" chooses Nack over DeadLetter.
ShouldRetry(m) == m.attempts < MaxAttempts

\* processNextMessage after UpdateInvocationResult: the error is logged and
\* the message is acked either way ("Still ack the message to avoid reprocessing").
AfterResultUpdate(err) == "ack"

\* The worker's locals once processNextMessage has returned.
Return(w) ==
    /\ pc' = [pc EXCEPT ![w] = "idle"]
    /\ msg' = [msg EXCEPT ![w] = NilMessage]
    /\ req' = [req EXCEPT ![w] = 0]
    /\ inv' = [inv EXCEPT ![w] = NilInvocation]
    /\ res' = [res EXCEPT ![w] = NilResult]
    /\ runErr' = [runErr EXCEPT ![w] = FALSE]
    /\ updErr' = [updErr EXCEPT ![w] = FALSE]

\* A payload that is not the JSON of an ExecutionRequest.
BadPayload == 0

\* Mutant of ParseOK: the payload is not checked.
ParseOK_Lenient(payload) == TRUE

\* processNextMessage: json.Unmarshal(msg.Payload, &execReq) returns no error.
ParseOK(payload) == payload # BadPayload

\* The loop of Worker.Start: the select finds neither ctx.Done() nor stopCh
\* ready and processNextMessage is called, which calls Dequeue: the
\* BRPOPLPUSH is sent and the worker waits for its reply, up to 5 s.
Start(w) ==
    /\ pc[w] = "idle"
    /\ ~stopped[w]
    /\ pc' = [pc EXCEPT ![w] = "dequeue"]
    /\ UNCHANGED <<queueVars, invocations, nextID, enqueueing, now, localVars, histVars>>
    /\ UNCHANGED envVars

\* processNextMessage: Dequeue returned a message (BRPOPLPUSH moves the
\* stored element in one step) and its payload is parsed. The command the
\* worker waits in is served also after Stop and cancel.
Dequeue(w) ==
    /\ pc[w] = "dequeue"
    /\ Len(ready) > 0
    /\ LET raw == ready[Len(ready)]
           m == DequeueMessage(raw)
       IN  /\ ready' = DequeueReady(ready)
           /\ processing' = DequeueProcessing(processing, raw)
           /\ msg' = [msg EXCEPT ![w] = m]
           /\ req' = [req EXCEPT ![w] = IF ParseOK(m.payload) THEN m.payload ELSE 0]
           /\ deliveries' = [deliveries EXCEPT ![m.id] = @ + 1]
           /\ pc' = [pc EXCEPT ![w] = IF ParseOK(m.payload) THEN "statusRead"
                                                            ELSE "invalid"]
    /\ UNCHANGED <<deadLetter, invocations, nextID, enqueueing, now, inv, res,
                   runErr, updErr, acked, executed>>
    /\ UNCHANGED envVars

\* processNextMessage: the list stayed empty for the time of the wait,
\* Dequeue returned no message (redis.Nil) and processNextMessage returns
\* nil to the loop of Start.
DequeueNone(w) ==
    /\ pc[w] = "dequeue"
    /\ Len(ready) = 0
    /\ pc' = [pc EXCEPT ![w] = "idle"]
    /\ UNCHANGED <<queueVars, invocations, nextID, enqueueing, now, localVars, histVars>>
    /\ UNCHANGED envVars

\* executeFunction -> UpdateInvocationStatus(running): GetByID.
\* An error is logged by the worker and execution goes on.
WStatusRead(w) ==
    /\ pc[w] = "statusRead"
    /\ \E ok \in CallOutcomes(w) :
          IF ok /\ req[w] \in DOMAIN invocations
          THEN /\ inv' = [inv EXCEPT ![w] = GetInvocationByID(invocations, req[w])]
               /\ pc' = [pc EXCEPT ![w] = "statusApply"]
               /\ UNCHANGED runErr
          ELSE /\ runErr' = [runErr EXCEPT ![w] = TRUE]
               /\ pc' = [pc EXCEPT ![w] = "getFunction"]
               /\ UNCHANGED inv
    /\ UNCHANGED <<queueVars, invocations, nextID, enqueueing, now, msg, req, res,
                   updErr, histVars>>
    /\ UNCHANGED envVars

\* executeFunction -> UpdateInvocationStatus(running): time.Now() is read
\* and the row is changed in memory.
WStatusApply(w) ==
    /\ pc[w] = "statusApply"
    /\ inv' = [inv EXCEPT ![w] = ApplyStatus(@, StatusRunning, now)]
    /\ pc' = [pc EXCEPT ![w] = "statusWrite"]
    /\ UNCHANGED <<queueVars, invocations, nextID, enqueueing, now, msg, req, res,
                   runErr, updErr, histVars>>
    /\ UNCHANGED envVars

\* executeFunction -> UpdateInvocationStatus(running): the row as changed
\* in memory is written back with Update.
WStatusWrite(w) ==
    /\ pc[w] = "statusWrite"
    /\ \E ok \in CallOutcomes(w) :
          IF ok /\ req[w] \in DOMAIN invocations
          THEN /\ invocations' = UpdateInvocation(invocations, req[w], inv[w])
               /\ UNCHANGED runErr
          ELSE /\ runErr' = [runErr EXCEPT ![w] = TRUE]
               /\ UNCHANGED invocations
    /\ inv' = [inv EXCEPT ![w] = NilInvocation]
    /\ pc' = [pc EXCEPT ![w] = "getFunction"]
    /\ UNCHANGED <<queueVars, nextID, enqueueing, now, msg, req, res, updErr, histVars>>
    /\ UNCHANGED envVars

\* executeFunction: functionRepo.GetByID; an error (the query failed, or the
\* function is not there) is returned to processNextMessage.
WGetFunction(w) ==
    /\ pc[w] = "getFunction"
    /\ \E ok \in CallOutcomes(w) :
          pc' = [pc EXCEPT ![w] = IF ok /\ TheFunction \in functions
                                  THEN "retrieve" ELSE "failed"]
    /\ UNCHANGED <<queueVars, invocations, nextID, enqueueing, now, localVars, histVars>>
    /\ UNCHANGED envVars

\* executeFunction: functionStore.Retrieve; an error is returned.
\* LocalStorage.Retrieve does not look at the context: it reads the file
\* also after the cancellation.
WRetrieve(w) ==
    /\ pc[w] = "retrieve"
    /\ \E ok \in BOOLEAN :
          pc' = [pc EXCEPT ![w] = IF ok THEN "execute" ELSE "failed"]
    /\ UNCHANGED <<queueVars, invocations, nextID, enqueueing, now, localVars, histVars>>
    /\ UNCHANGED envVars

\* executeFunction: runtime.Execute returned a structured result.
WExecute(w) ==
    /\ pc[w] = "execute"
    /\ \E r \in ExecutionResults :
          /\ res' = [res EXCEPT ![w] = r]
          /\ pc' = [pc EXCEPT ![w] = AfterExecute(r)]
    /\ executed' = [executed EXCEPT ![req[w]] = @ + 1]
    /\ UNCHANGED <<queueVars, invocations, nextID, enqueueing, now, msg, req, inv,
                   runErr, updErr, acked, deliveries>>
    /\ UNCHANGED envVars

\* executeFunction: runtime.Execute returned an error and no result.
WExecuteError(w) ==
    /\ pc[w] = "execute"
    /\ pc' = [pc EXCEPT ![w] = "failed"]
    /\ UNCHANGED <<queueVars, invocations, nextID, enqueueing, now, localVars, histVars>>
    /\ UNCHANGED envVars

\* processNextMessage, executeFunction failed and msg.Attempts < 3:
\* Nack, first command of its pipeline. Under a cancelled context the
\* pipeline is not sent, Nack returns an error that is dropped and
\* processNextMessage returns.
WNack(w) ==
    /\ pc[w] = "failed"
    /\ ShouldRetry(msg[w])
    /\ IF stopped[w]
       THEN /\ Return(w)
            /\ UNCHANGED processing
       ELSE /\ processing' = NackProcessing(processing, msg[w])
            /\ pc' = [pc EXCEPT ![w] = "nackPush"]
            /\ UNCHANGED localVars
    /\ UNCHANGED <<ready, deadLetter, invocations, nextID, enqueueing, now, histVars>>
    /\ UNCHANGED envVars

\* Nack, second command of its pipeline; processNextMessage returns.
WNackPush(w) ==
    /\ pc[w] = "nackPush"
    /\ ready' = NackReady(ready, msg[w])
    /\ Return(w)
    /\ UNCHANGED <<processing, deadLetter, invocations, nextID, enqueueing, now, histVars>>
    /\ UNCHANGED envVars

\* processNextMessage, executeFunction failed and msg.Attempts >= 3:
\* DeadLetter sets the headers and runs the first command of its pipeline
\* (under a cancelled context the pipeline is not sent).
WDeadLetter(w) ==
    /\ pc[w] = "failed"
    /\ ~ShouldRetry(msg[w])
    /\ IF stopped[w]
       THEN /\ Return(w)
            /\ UNCHANGED processing
       ELSE LET m == DeadLetterMessage(msg[w], "max retries exceeded", now)
            IN  /\ msg' = [msg EXCEPT ![w] = m]
                /\ processing' = DeadLetterProcessing(processing, m)
                /\ pc' = [pc EXCEPT ![w] = "dlPush"]
                /\ UNCHANGED <<req, inv, res, runErr, updErr>>
    /\ UNCHANGED <<ready, deadLetter, invocations, nextID, enqueueing, now, histVars>>
    /\ UNCHANGED envVars

\* Mutant of WDeadLetterPush: the message is pushed on the ready list as
\* well as on the dead-letter list.
WDeadLetterPush_Requeue(w) ==
    /\ pc[w] = "dlPush"
    /\ deadLetter' = DeadLetterPush(deadLetter, msg[w])
    /\ ready' = LPush(ready, Marshal(msg[w]))
    /\ Return(w)
    /\ UNCHANGED <<processing, invocations, nextID, enqueueing, now, histVars>>
    /\ UNCHANGED envVars

\* DeadLetter, second command of its pipeline; processNextMessage returns.
WDeadLetterPush(w) ==
    /\ pc[w] = "dlPush"
    /\ deadLetter' = DeadLetterPush(deadLetter, msg[w])
    /\ Return(w)
    /\ UNCHANGED <<ready, processing, invocations, nextID, enqueueing, now, histVars>>
    /\ UNCHANGED envVars

\* processNextMessage -> UpdateInvocationResult: GetByID.
WResultRead(w) ==
    /\ pc[w] = "resultRead"
    /\ \E ok \in CallOutcomes(w) :
          IF ok /\ req[w] \in DOMAIN invocations
          THEN /\ inv' = [inv EXCEPT ![w] = GetInvocationByID(invocations, req[w])]
               /\ pc' = [pc EXCEPT ![w] = "resultApply"]
               /\ UNCHANGED updErr
          ELSE /\ updErr' = [updErr EXCEPT ![w] = TRUE]
               /\ pc' = [pc EXCEPT ![w] = AfterResultUpdate(TRUE)]
               /\ UNCHANGED inv
    /\ UNCHANGED <<queueVars, invocations, nextID, enqueueing, now, msg, req, res,
                   runErr, histVars>>
    /\ UNCHANGED envVars

\* processNextMessage -> UpdateInvocationResult: the result is set on the
\* row in memory and time.Now() is read for the timestamps.
WResultApply(w) ==
    /\ pc[w] = "resultApply"
    /\ inv' = [inv EXCEPT ![w] = ApplyResult(@, res[w], now)]
    /\ pc' = [pc EXCEPT ![w] = "resultWrite"]
    /\ UNCHANGED <<queueVars, invocations, nextID, enqueueing, now, msg, req, res,
                   runErr, updErr, histVars>>
    /\ UNCHANGED envVars

\* processNextMessage -> UpdateInvocationResult: the terminal row is written.
WResultWrite(w) ==
    /\ pc[w] = "resultWrite"
    /\ \E ok \in CallOutcomes(w) :
          IF ok /\ req[w] \in DOMAIN invocations
          THEN /\ invocations' = UpdateInvocation(invocations, req[w], inv[w])
               /\ pc' = [pc EXCEPT ![w] = AfterResultUpdate(FALSE)]
               /\ UNCHANGED updErr
          ELSE /\ updErr' = [updErr EXCEPT ![w] = TRUE]
               /\ pc' = [pc EXCEPT ![w] = AfterResultUpdate(TRUE)]
               /\ UNCHANGED invocations
    /\ inv' = [inv EXCEPT ![w] = NilInvocation]
    /\ UNCHANGED <<queueVars, nextID, enqueueing, now, msg, req, res, runErr, histVars>>
    /\ UNCHANGED envVars

\* Mutant of WAck: after the Ack the worker goes on to the retry logic.
WAck_ThenRetry(w) ==
    /\ pc[w] = "ack"
    /\ processing' = IF stopped[w] THEN processing ELSE AckProcessing(processing, msg[w])
    /\ acked' = IF stopped[w] THEN acked ELSE acked \cup {msg[w].id}
    /\ pc' = [pc EXCEPT ![w] = "failed"]
    /\ UNCHANGED localVars
    /\ UNCHANGED <<ready, deadLetter, invocations, nextID, enqueueing, now, deliveries,
                   executed>>
    /\ UNCHANGED envVars

\* processNextMessage: Ack (under a cancelled context it returns an error,
\* which is logged); processNextMessage returns.
WAck(w) ==
    /\ pc[w] = "ack"
    /\ processing' = IF stopped[w] THEN processing ELSE AckProcessing(processing, msg[w])
    /\ acked' = IF stopped[w] THEN acked ELSE acked \cup {msg[w].id}
    /\ Return(w)
    /\ UNCHANGED <<ready, deadLetter, invocations, nextID, enqueueing, now, deliveries,
                   executed>>
    /\ UNCHANGED envVars

\* The worker process dies while it holds a message and is started again.
\* The two commands of a pipeline reach the server together, so a crash
\* does not separate them. An Execute call in progress dies with the process
\* and none of its deferred calls runs.
Crash(w) ==
    /\ pc[w] \notin {"idle", "dequeue", "nackPush", "dlPush", "exited"}
    /\ Return(w)
    /\ rt' = [rt EXCEPT ![w] = RtIdle]
    /\ UNCHANGED <<queueVars, invocations, nextID, enqueueing, now, histVars, functions,
                   stopped, auxVars>>

Next ==
    \/ InvokeCreate
    \/ \E i \in InvocationIDs : InvokeEnqueue(i)
    \/ \E w \in Workers :
          \/ Start(w)
          \/ Dequeue(w)
          \/ DequeueNone(w)
          \/ WStatusRead(w)
          \/ WStatusApply(w)
          \/ WStatusWrite(w)
          \/ WGetFunction(w)
          \/ WRetrieve(w)
          \/ WExecute(w)
          \/ WExecuteError(w)
          \/ WNack(w)
          \/ WNackPush(w)
          \/ WDeadLetter(w)
          \/ WDeadLetterPush(w)
          \/ WResultRead(w)
          \/ WResultApply(w)
          \/ WResultWrite(w)
          \/ WAck(w)
          \/ Crash(w)

Spec == Init /\ [][Next]_vars

\* ------------------------------------- the pipeline with running workers
\* One step of the loop of Worker.Start for worker w: the worker process
\* does not die.
WorkerStep(w) ==
    \/ Start(w)
    \/ Dequeue(w)
    \/ DequeueNone(w)
    \/ WStatusRead(w)
    \/ WStatusApply(w)
    \/ WStatusWrite(w)
    \/ WGetFunction(w)
    \/ WRetrieve(w)
    \/ WExecute(w)
    \/ WExecuteError(w)
    \/ WNack(w)
    \/ WNackPush(w)
    \/ WDeadLetter(w)
    \/ WDeadLetterPush(w)
    \/ WResultRead(w)
    \/ WResultApply(w)
    \/ WResultWrite(w)
    \/ WAck(w)

NextLive ==
    \/ InvokeCreate
    \/ \E i \in InvocationIDs : InvokeEnqueue(i)
    \/ \E w \in Workers : WorkerStep(w)

\* The pipeline without crashes: every InvokeAsync call runs to its end and
\* every worker goroutine keeps taking the steps of its loop.
SpecLive ==
    /\ Init
    /\ [][NextLive]_vars
    /\ WF_vars(\E i \in InvocationIDs : InvokeEnqueue(i))
    /\ \A w \in Workers : WF_vars(WorkerStep(w))

\* ------------------------------------------------ the pipeline with a clock
\* The wall clock advances.
Tick ==
    /\ now < MaxClock
    /\ now' = now + 1
    /\ UNCHANGED <<queueVars, invocations, nextID, enqueueing, pc, localVars, histVars>>
    /\ UNCHANGED envVars

\* Invocations created while the clock runs.
ClockInvocations == 1

NextClock ==
    \/ Next /\ nextID' <= ClockInvocations
    \/ Tick

\* The pipeline with time passing between its steps: the timestamps the
\* Service writes differ from one step to the next.
SpecClock == Init /\ [][NextClock]_vars

\* ------------------------------------------ messages that do not parse
\* RedisQueue.Enqueue called with a payload that is not an ExecutionRequest:
\* the queue stores any bytes. The message takes the next id; no invocation
\* row belongs to it.
EnqueueInvalid ==
    /\ nextID < MaxInvocations
    /\ nextID' = nextID + 1
    /\ ready' = Enqueue(ready, nextID', BadPayload)
    /\ UNCHANGED <<processing, deadLetter, invocations, enqueueing, now, pc, localVars,
                   histVars>>
    /\ UNCHANGED envVars

\* processNextMessage, the payload did not parse: DeadLetter with the reason
\* "invalid payload: <err>", first command of its pipeline (under a cancelled
\* context the pipeline is not sent); the second is WDeadLetterPush.
WDeadLetterInvalid(w) ==
    /\ pc[w] = "invalid"
    /\ IF stopped[w]
       THEN /\ Return(w)
            /\ UNCHANGED processing
       ELSE LET m == DeadLetterMessage(msg[w], "invalid payload", now)
            IN  /\ msg' = [msg EXCEPT ![w] = m]
                /\ processing' = DeadLetterProcessing(processing, m)
                /\ pc' = [pc EXCEPT ![w] = "dlPush"]
                /\ UNCHANGED <<req, inv, res, runErr, updErr>>
    /\ UNCHANGED <<ready, deadLetter, invocations, nextID, enqueueing, now, histVars>>
    /\ UNCHANGED envVars

NextPayload ==
    \/ Next
    \/ EnqueueInvalid
    \/ \E w \in Workers : WDeadLetterInvalid(w)

\* The pipeline with a producer that enqueues unparsable messages.
SpecPayload == Init /\ [][NextPayload]_vars

\* ------------------------------------------- the function being deleted
\* Mutant of StorageDelete: the whole base directory is removed.
StorageDelete_All(store, loc) == [l \in DOMAIN store |-> NoCode]

\* LocalStorage.Delete: os.RemoveAll of the directory of the location.
StorageDelete(store, loc) == [store EXCEPT ![loc] = NoCode]

\* What a step of DeleteFunction leaves alone.
deleteUnchanged ==
    UNCHANGED <<queueVars, nextID, enqueueing, now, pc, localVars, histVars, rt,
                stopped, rejected, staging, extVars>>

\* function.Service.DeleteFunction: repo.GetByID reads the row for its code
\* location.
DeleteFunctionGet(c) ==
    /\ calls[c].pc = "idle"
    /\ TheFunction \in functions
    /\ calls' = [calls EXCEPT ![c] =
                    [IdleCall EXCEPT !.pc = "deleteRow", !.fn = fnCode[TheFunction]]]
    /\ UNCHANGED <<functions, fnCode, invocations, blobs>>
    /\ deleteUnchanged

\* DeleteFunction: repo.Delete removes the row from the functions table, and
\* with it (invocations.function_id ... ON DELETE CASCADE) every invocation
\* row of the function; an error (the row is gone already, the query
\* failed) is returned.
DeleteFunctionRow(c) ==
    /\ calls[c].pc = "deleteRow"
    /\ \E ok \in BOOLEAN :
          IF ok /\ TheFunction \in functions
          THEN /\ functions' = functions \ {TheFunction}
               /\ fnCode' = [fnCode EXCEPT ![TheFunction] = NilFunction]
               /\ invocations' = << >>
               /\ calls' = [calls EXCEPT ![c] = [@ EXCEPT !.pc = "deleteBlob"]]
          ELSE /\ calls' = [calls EXCEPT ![c] = IdleCall]
               /\ UNCHANGED <<functions, fnCode, invocations>>
    /\ UNCHANGED blobs
    /\ deleteUnchanged

\* DeleteFunction: storage.Delete of the stored code, best effort: its error
\* is logged and nil is returned.
DeleteFunctionBlob(c) ==
    /\ calls[c].pc = "deleteBlob"
    /\ \E ok \in BOOLEAN :
          /\ blobs' = IF ok THEN StorageDelete(blobs, calls[c].fn.source) ELSE blobs
          /\ calls' = [Unlink(calls, blobs, blobs') EXCEPT ![c] = IdleCall]
    /\ UNCHANGED <<functions, fnCode, invocations>>
    /\ deleteUnchanged

\* The callers of DeleteFunction.
DeleteCallers == {1}

NextDelete ==
    \/ Next
    \/ \E c \in DeleteCallers :
          \/ DeleteFunctionGet(c)
          \/ DeleteFunctionRow(c)
          \/ DeleteFunctionBlob(c)
    \/ \E f \in RequestedIDs : InvokeMissing(f)

SpecDelete == Init /\ [][NextDelete]_vars

\* --------------------------------------- the pipeline with failing enqueues
\* The pipeline with InvokeAsync calls whose Enqueue returns an error,
\* together with DeleteFunction calls on the function invoked.
\* Invocations created in this specification.
EnqueueFailInvocations == 1

NextEnqueueFail ==
    \/ NextDelete /\ nextID' <= EnqueueFailInvocations
    \/ \E i \in InvocationIDs : InvokeEnqueueFails(i)

SpecEnqueueFail == Init /\ [][NextEnqueueFail]_vars

\* ---------------------------------------------------- function.Service
\* CreateFunction and UpdateFunction with the code store and the functions
\* table, each call a sequence of steps that other callers interleave with,
\* and the worker's lookup of a function's code.

\* LocalStorage.Store, os.MkdirAll and the open of os.WriteFile (O_CREATE,
\* O_TRUNC): the file "code" of the function's directory is there and what
\* it held is gone.
StorageTruncate(store, f) == [store EXCEPT ![CodeLocation(f)] = EmptyCode]

\* A write of data at offset 0 of a file that holds content: the bytes of
\* the file beyond the data stay. A file that was removed stays removed.
WriteAt0(content, data) ==
    IF content = NoCode THEN NoCode
    ELSE data \o SubSeq(content, Len(data) + 1, Len(content))

\* The beginnings of a body that a write which fails can have written.
WrittenBeforeError(code) == {SubSeq(code, 1, n) : n \in 0..(Len(code) - 1)}

\* LocalStorage.Store, the write and the close of os.WriteFile: the
\* descriptor writes from its offset 0 without truncating again.
StorageStore(store, f, code) ==
    [store EXCEPT ![CodeLocation(f)] = WriteAt0(@, code)]

\* The code store after the descriptor of call has written data from its
\* offset 0: the file at the location has the data, unless the descriptor's
\* file was removed from there, and then the store is as it was.
WrittenStore(store, call, f, data) ==
    IF call.held = NoCode THEN StorageStore(store, f, data) ELSE store

\* The calls after the descriptor of call c has written data: when its
\* file was removed from its directory the data is in that file, which the
\* other descriptors open on it read.
WrittenCalls(cs, c, data) ==
    [o \in DOMAIN cs |->
        IF /\ cs[c].held # NoCode
           /\ HasDescriptor(cs[o])
           /\ cs[o].held # NoCode
           /\ cs[o].fn.source = cs[c].fn.source
        THEN [cs[o] EXCEPT !.held = WriteAt0(@, data)]
        ELSE cs[o]]

\* The file at a location as a descriptor opened on it sees it: its bytes
\* as they are, a file that is being written included (NoCode: no file).
StorageRetrieve(store, loc) == store[loc]

callsUnchanged ==
    UNCHANGED <<queueVars, invocations, nextID, enqueueing, now, pc, localVars,
                histVars, rt, stopped, rejected, staging, extVars>>

\* CreateFunction: a fresh function id, the checksum of the code, and
\* storage.Store up to the open of the file; an error is returned to the
\* caller.
CreateFunctionStore(c, f, code) ==
    /\ calls[c].pc = "idle"
    /\ f \notin functions
    /\ blobs[CodeLocation(f)] = NoCode
    /\ \A o \in Callers : ~HoldsLocation(o, CodeLocation(f))
    /\ \E ok \in BOOLEAN :
          IF ok
          THEN /\ blobs' = StorageTruncate(blobs, f)
               /\ calls' = [calls EXCEPT ![c] =
                                [IdleCall EXCEPT !.pc = "createWrite", !.code = code,
                                                 !.fn = FunctionRow(f, code)]]
          ELSE UNCHANGED <<blobs, calls>>
    /\ UNCHANGED <<functions, fnCode>>
    /\ callsUnchanged

\* CreateFunction: storage.Store writes the file; on an error the file is
\* left as far as it was written and the error is returned to the caller.
CreateFunctionWrite(c, f) ==
    /\ calls[c].pc = "createWrite"
    /\ HoldsLocation(c, CodeLocation(f))
    /\ \E ok \in BOOLEAN :
          IF ok
          THEN /\ blobs' = WrittenStore(blobs, calls[c], f, calls[c].code)
               /\ calls' = [WrittenCalls(calls, c, calls[c].code) EXCEPT
                                ![c] = [@ EXCEPT !.pc = "createRow", !.held = NoCode]]
          ELSE \E part \in WrittenBeforeError(calls[c].code) :
                  /\ blobs' = WrittenStore(blobs, calls[c], f, part)
                  /\ calls' = [WrittenCalls(calls, c, part) EXCEPT ![c] = IdleCall]
    /\ UNCHANGED <<functions, fnCode>>
    /\ callsUnchanged

\* CreateFunction: repo.Create; on an error (a Conflict on the name and
\* version, or any other) storage.Delete is called on the stored code and
\* its own error is dropped.
CreateFunctionRow(c, f) ==
    /\ calls[c].pc = "createRow"
    /\ HoldsLocation(c, CodeLocation(f))
    /\ \E ok \in BOOLEAN, deleted \in BOOLEAN :
          IF ok
          THEN /\ functions' = functions \cup {f}
               /\ fnCode' = [fnCode EXCEPT ![f] = calls[c].fn]
               /\ calls' = [calls EXCEPT ![c] = IdleCall]
               /\ UNCHANGED blobs
          ELSE /\ blobs' = IF deleted THEN StorageDelete(blobs, calls[c].fn.source)
                                      ELSE blobs
               /\ calls' = [Unlink(calls, blobs, blobs') EXCEPT
                                ![c] = [@ EXCEPT !.pc = "createFailed"]]
               /\ UNCHANGED <<functions, fnCode>>
    /\ callsUnchanged

\* CreateFunction returns the error of repo.Create to its caller.
CreateFunctionFailed(c) ==
    /\ calls[c].pc = "createFailed"
    /\ calls' = [calls EXCEPT ![c] = IdleCall]
    /\ UNCHANGED <<functions, fnCode, blobs>>
    /\ callsUnchanged

\* UpdateFunction: repo.GetByID reads the row; req.Code is code, or nil
\* (NoCode) for an update of other fields only.
UpdateFunctionGet(c, f, code) ==
    /\ calls[c].pc = "idle"
    /\ f \in functions
    /\ calls' = [calls EXCEPT ![c] =
                    [IdleCall EXCEPT !.pc = IF code = NoCode THEN "updateRow"
                                                            ELSE "updateStore",
                                     !.code = code, !.fn = fnCode[f]]]
    /\ UNCHANGED <<functions, fnCode, blobs>>
    /\ callsUnchanged

\* UpdateFunction with new code: storage.Store under the function's id, up
\* to the open of the file, which empties the file in place; an error is
\* returned to the caller.
UpdateFunctionStore(c, f) ==
    /\ calls[c].pc = "updateStore"
    /\ HoldsLocation(c, CodeLocation(f))
    /\ \E ok \in BOOLEAN :
          IF ok
          THEN /\ blobs' = StorageTruncate(blobs, f)
               /\ calls' = [calls EXCEPT ![c] = [@ EXCEPT !.pc = "updateWrite"]]
          ELSE /\ calls' = [calls EXCEPT ![c] = IdleCall]
               /\ UNCHANGED blobs
    /\ UNCHANGED <<functions, fnCode>>
    /\ callsUnchanged

\* UpdateFunction with new code: storage.Store writes the file, then the
\* location and the checksum are set on the row held in memory; on an error
\* of the write the file is left as far as it was written and the error is
\* returned to the caller, the row as it was.
UpdateFunctionWrite(c, f) ==
    /\ calls[c].pc = "updateWrite"
    /\ HoldsLocation(c, CodeLocation(f))
    /\ \E ok \in BOOLEAN :
          IF ok
          THEN /\ blobs' = WrittenStore(blobs, calls[c], f, calls[c].code)
               /\ calls' = [WrittenCalls(calls, c, calls[c].code) EXCEPT
                                ![c] = [@ EXCEPT !.pc = "updateRow", !.held = NoCode,
                                                 !.fn = FunctionRow(f, calls[c].code)]]
          ELSE \E part \in WrittenBeforeError(calls[c].code) :
                  /\ blobs' = WrittenStore(blobs, calls[c], f, part)
                  /\ calls' = [WrittenCalls(calls, c, part) EXCEPT ![c] = IdleCall]
    /\ UNCHANGED <<functions, fnCode>>
    /\ callsUnchanged

\* UpdateFunction: repo.Update writes every column of the row held in
\* memory; an error is returned to the caller and nothing is undone.
UpdateFunctionRow(c, f) ==
    /\ calls[c].pc = "updateRow"
    /\ HoldsLocation(c, CodeLocation(f))
    /\ \E ok \in BOOLEAN :
          fnCode' = IF ok /\ f \in functions
                    THEN [fnCode EXCEPT ![f] = calls[c].fn]
                    ELSE fnCode
    /\ calls' = [calls EXCEPT ![c] = IdleCall]
    /\ UNCHANGED <<functions, blobs>>
    /\ callsUnchanged

\* Worker.executeFunction: functionRepo.GetByID.
WorkerGetByID(c, f) ==
    /\ calls[c].pc = "idle"
    /\ f \in functions
    /\ calls' = [calls EXCEPT ![c] = [IdleCall EXCEPT !.pc = "retrieve", !.fn = fnCode[f]]]
    /\ UNCHANGED <<functions, fnCode, blobs>>
    /\ callsUnchanged

\* What a read of a descriptor returns when its file holds content and
\* data has been read so far: the bytes of the file beyond those read, none
\* when the file has become shorter than that.
ReadFrom(content, data) == SubSeq(content, Len(data) + 1, Len(content))

\* Worker.executeFunction: functionStore.Retrieve(fn.Code.Source), the open
\* of os.ReadFile; when there is no file the error is returned to
\* executeFunction.
WorkerRetrieve(c) ==
    /\ calls[c].pc = "retrieve"
    /\ calls' = [calls EXCEPT ![c] =
                    IF StorageRetrieve(blobs, @.fn.source) = NoCode
                    THEN [@ EXCEPT !.pc = "read", !.code = NoCode]
                    ELSE [@ EXCEPT !.pc = "reading", !.code = EmptyCode]]
    /\ UNCHANGED <<functions, fnCode, blobs>>
    /\ callsUnchanged

\* LocalStorage.Retrieve, one read of the loop of os.ReadFile: the bytes
\* of the descriptor's file from its offset on are appended to those read
\* before, and a read that returns none (end of file) ends the loop and
\* the file is closed; the code read goes to the runtime. Stores and
\* removals of other callers take place between the reads; a file removed
\* after the open is read to its end.
WorkerRead(c) ==
    /\ calls[c].pc = "reading"
    /\ LET got == ReadFrom(DescriptorFile(blobs, calls[c]), calls[c].code)
       IN  calls' = [calls EXCEPT ![c] =
                        IF got = EmptyCode
                        THEN [@ EXCEPT !.pc = "read", !.held = NoCode]
                        ELSE [@ EXCEPT !.code = @ \o got]]
    /\ UNCHANGED <<functions, fnCode, blobs>>
    /\ callsUnchanged

\* Worker.executeFunction returns.
WorkerDone(c) ==
    /\ calls[c].pc = "read"
    /\ calls' = [calls EXCEPT ![c] = IdleCall]
    /\ UNCHANGED <<functions, fnCode, blobs>>
    /\ callsUnchanged

\* No function is registered and the code store is empty.
InitFunctions ==
    /\ ready = <<>>
    /\ processing = EmptyBag
    /\ deadLetter = EmptyBag
    /\ invocations = <<>>
    /\ nextID = 0
    /\ enqueueing = {}
    /\ now = 0
    /\ pc = [w \in Workers |-> "idle"]
    /\ msg = [w \in Workers |-> NilMessage]
    /\ req = [w \in Workers |-> 0]
    /\ inv = [w \in Workers |-> NilInvocation]
    /\ res = [w \in Workers |-> NilResult]
    /\ runErr = [w \in Workers |-> FALSE]
    /\ updErr = [w \in Workers |-> FALSE]
    /\ acked = {}
    /\ deliveries = [i \in InvocationIDs |-> 0]
    /\ executed = [i \in InvocationIDs |-> 0]
    /\ functions = {}
    /\ rt = [w \in Workers |-> RtIdle]
    /\ stopped = [w \in Workers |-> FALSE]
    /\ rejected = {}
    /\ fnCode = [f \in FunctionIDs |-> NilFunction]
    /\ blobs = [l \in Locations |-> NoCode]
    /\ calls = [c \in Callers |-> IdleCall]
    /\ staging = NoDirectory
    /\ orphaned = {}
    /\ SideInit

NextFunctions ==
    \E c \in Callers, f \in FunctionIDs :
        \/ \E code \in Codes : CreateFunctionStore(c, f, code)
        \/ CreateFunctionWrite(c, f)
        \/ CreateFunctionRow(c, f)
        \/ CreateFunctionFailed(c)
        \/ \E code \in Codes \cup {NoCode} : UpdateFunctionGet(c, f, code)
        \/ UpdateFunctionStore(c, f)
        \/ UpdateFunctionWrite(c, f)
        \/ UpdateFunctionRow(c, f)
        \/ WorkerGetByID(c, f)
        \/ WorkerRetrieve(c)
        \/ WorkerRead(c)
        \/ WorkerDone(c)
        \/ /\ c \in DeleteCallers
           /\ \/ DeleteFunctionGet(c)
              \/ DeleteFunctionRow(c)
              \/ DeleteFunctionBlob(c)

SpecFunctions == InitFunctions /\ [][NextFunctions]_vars

\* ------------------------------------------- ContainerRuntime.Execute
\* The worker's Execute step taken apart: the steps of
\* ContainerRuntime.Execute, each of which can fail, the container's process
\* ending on its own, the deadline of execCtx expiring, and main cancelling
\* the worker's context on a shutdown signal.

\* spec.Runtime as the function row gives it: a supported tag and one that
\* GetRuntimeImage does not know.
RuntimeTags == {"go", "ruby"}

\* ImageManager.GetRuntimeImage: the image of the runtime, "" when unknown.
GetRuntimeImage(tag) ==
    IF tag \in {"go", "python", "nodejs"} THEN tag ELSE ""

\* The status codes a function's process ends with.
ExitCodes == {0, 1}

\* A nil *runtime.ExecutionResult.
RtNoResult == [status |-> Nil, output |-> Nil, error |-> Nil]

\* Execute: unknown runtime tag.
UnsupportedResult ==
    [status |-> StatusFailed, output |-> Nil, error |-> "UnsupportedRuntime"]

\* Execute: EnsureImage failed.
ImageErrorResult ==
    [status |-> StatusFailed, output |-> Nil, error |-> "ImageError"]

\* Execute: execCtx.Err() == context.DeadlineExceeded after the wait.
TimeoutResult ==
    [status |-> StatusTimeout, output |-> Nil, error |-> "TimeoutError"]

\* Execute: the result built from the exit code and the logs (no logs when
\* GetContainerLogs failed).
ExitResult(exitCode, logsOk) ==
    IF exitCode = 0
    THEN [status |-> StatusCompleted, output |-> IF logsOk THEN "json" ELSE Nil,
          error |-> Nil]
    ELSE [status |-> StatusFailed, output |-> Nil, error |-> "RuntimeError"]

\* executeFunction: the runtime's result converted to the invocation's
\* ExecutionResult (Metrics: &runtimeResult.Metrics, never nil).
ConvertResult(r) ==
    [status |-> r.status, result |-> r.output, error |-> r.error, metrics |-> "m"]

\* Mutant of Defers: the deferred RemoveContainer is missing.
Defers_DirOnly(r, removed, deleted) ==
    [r EXCEPT !.dir = IF @ = "present" /\ deleted THEN "removed" ELSE @,
              !.rmDir = IF r.dir # "present" THEN "none"
                        ELSE IF deleted THEN "ok" ELSE "failed"]

\* The deferred calls of Execute, run when it returns or panics:
\* RemoveContainer (registered once the container was created, forced, under
\* a context of its own with a deadline of 10 s) and os.RemoveAll(execDir)
\* (registered once the directory was created). Either call can fail
\* (removed, deleted: whether it succeeded); Execute drops their errors.
Defers(r, removed, deleted) ==
    [r EXCEPT !.container = IF @ # "none" /\ removed THEN "removed" ELSE @,
              !.rmContainer = IF r.container = "none" THEN "none"
                              ELSE IF removed THEN "ok" ELSE "failed",
              !.dir = IF @ = "present" /\ deleted THEN "removed" ELSE @,
              !.rmDir = IF r.dir # "present" THEN "none"
                        ELSE IF deleted THEN "ok" ELSE "failed"]

\* Execute reaches a return statement (with a result or with an error) or
\* panics; its deferred calls are still to run.
Returning(r, out, result) ==
    [r EXCEPT !.pc = "returning", !.out = out, !.result = result]

\* WaitContainer: the context KillContainer is called with is
\* context.Background(), which is never done.
KillCtxDone(r) == FALSE

\* Client.KillContainer: SIGKILL; the call fails under a context that is
\* done, the daemon refuses it for a container that is not running, and
\* ContainerKill can return an error (ok: it did not), which WaitContainer
\* drops.
KillContainer(r, ok) ==
    [r EXCEPT !.killSent = ~KillCtxDone(r),
              !.killed = ~KillCtxDone(r) /\ ok /\ r.container = "running",
              !.container = IF ~KillCtxDone(r) /\ ok /\ @ = "running"
                            THEN "killed" ELSE @]

\* The positions of Execute at which execCtx exists and is still read.
LivePcs == {"create", "start", "wait", "check"}

\* A call made with execCtx fails once execCtx is done.
ExecCtxOutcomes(r) == IF r.ctxErr = "none" THEN BOOLEAN ELSE {FALSE}

rtUnchanged ==
    UNCHANGED <<queueVars, invocations, nextID, enqueueing, now, pc, localVars,
                histVars, functions, stopped, auxVars>>

\* Execute: GetRuntimeImage and EnsureImage.
ExecuteImage(w) ==
    /\ pc[w] = "execute"
    /\ rt[w].pc = "idle"
    /\ \E tag \in RuntimeTags, ok \in CallOutcomes(w) :
          rt' = [rt EXCEPT ![w] =
                    IF GetRuntimeImage(tag) = ""
                    THEN Returning([@ EXCEPT !.tag = tag], "result", UnsupportedResult)
                    ELSE IF ~ok
                    THEN Returning([@ EXCEPT !.tag = tag, !.image = "failed"],
                                  "result", ImageErrorResult)
                    ELSE [@ EXCEPT !.pc = "mkdir", !.tag = tag, !.image = "ok"]]
    /\ rtUnchanged

\* Execute: os.MkdirAll(execDir) and defer os.RemoveAll(execDir).
ExecuteMkdir(w) ==
    /\ pc[w] = "execute"
    /\ rt[w].pc = "mkdir"
    /\ \E ok \in BOOLEAN :
          rt' = [rt EXCEPT ![w] =
                    IF ok
                    THEN [@ EXCEPT !.pc = "write", !.dir = "present"]
                    ELSE Returning(@, "error", RtNoResult)]
    /\ rtUnchanged

\* Execute: writeCodeToFile, then execCtx is derived from the worker's
\* context with the timeout.
ExecuteWriteCode(w) ==
    /\ pc[w] = "execute"
    /\ rt[w].pc = "write"
    /\ \E ok \in BOOLEAN :
          rt' = [rt EXCEPT ![w] =
                    IF ok
                    THEN [@ EXCEPT !.pc = "create",
                                   !.ctxErr = IF stopped[w] THEN "canceled" ELSE "none"]
                    ELSE Returning(@, "error", RtNoResult)]
    /\ rtUnchanged

\* Execute: CreateContainer(execCtx) and the deferred RemoveContainer.
ExecuteCreate(w) ==
    /\ pc[w] = "execute"
    /\ rt[w].pc = "create"
    /\ \E ok \in ExecCtxOutcomes(rt[w]) :
          rt' = [rt EXCEPT ![w] =
                    IF ok
                    THEN [@ EXCEPT !.pc = "start", !.container = "created"]
                    ELSE Returning(@, "error", RtNoResult)]
    /\ rtUnchanged

\* Execute: StartContainer(execCtx).
ExecuteStart(w) ==
    /\ pc[w] = "execute"
    /\ rt[w].pc = "start"
    /\ \E ok \in ExecCtxOutcomes(rt[w]) :
          rt' = [rt EXCEPT ![w] =
                    IF ok
                    THEN [@ EXCEPT !.pc = "wait", !.container = "running"]
                    ELSE Returning(@, "error", RtNoResult)]
    /\ rtUnchanged

\* The function's process ends on its own.
ContainerExit(w) ==
    /\ rt[w].pc = "wait"
    /\ rt[w].container = "running"
    /\ \E c \in ExitCodes :
          rt' = [rt EXCEPT ![w] = [@ EXCEPT !.container = "exited", !.code = c]]
    /\ rtUnchanged

\* The timeout of execCtx elapses.
DeadlineExpires(w) ==
    /\ rt[w].pc \in LivePcs
    /\ rt[w].ctxErr = "none"
    /\ rt' = [rt EXCEPT ![w] = [@ EXCEPT !.ctxErr = "deadline"]]
    /\ rtUnchanged

\* Client.WaitContainer: the select takes one of the channels that are
\* ready: the status of a container that has ended, an error of the driver,
\* or the Done of execCtx, on which the container is killed.
WaitContainer(w) ==
    /\ pc[w] = "execute"
    /\ rt[w].pc = "wait"
    /\ \/ /\ rt[w].container = "exited"
          /\ rt' = [rt EXCEPT ![w] =
                       [@ EXCEPT !.pc = "check", !.waited = "status",
                                 !.early = (rt[w].ctxErr = "none"),
                                 !.exitCode = rt[w].code]]
       \/ rt' = [rt EXCEPT ![w] =
                    [@ EXCEPT !.pc = "check", !.waited = "error", !.exitCode = -1]]
       \/ /\ rt[w].ctxErr # "none"
          /\ \E ok \in BOOLEAN :
                rt' = [rt EXCEPT ![w] =
                          [KillContainer(@, ok) EXCEPT !.pc = "check", !.waited = "done",
                                                      !.exitCode = -1]]
    /\ rtUnchanged

\* Execute after the wait: "if execCtx.Err() == context.DeadlineExceeded".
ExecuteCheckTimeout(w) ==
    /\ pc[w] = "execute"
    /\ rt[w].pc = "check"
    /\ rt' = [rt EXCEPT ![w] =
                 IF @.ctxErr = "deadline"
                 THEN Returning(@, "result", TimeoutResult)
                 ELSE [@ EXCEPT !.pc = "collect"]]
    /\ rtUnchanged

\* Execute: GetContainerLogs (an error leaves the logs empty),
\* GetContainerStats (with an error stats is nil and stats.MemoryUsage
\* panics), and the result by exit code.
ExecuteCollect(w) ==
    /\ pc[w] = "execute"
    /\ rt[w].pc = "collect"
    /\ \E logsOk \in BOOLEAN, statsOk \in BOOLEAN :
          rt' = [rt EXCEPT ![w] =
                    IF statsOk
                    THEN Returning([@ EXCEPT !.stats = "ok"], "result",
                                  ExitResult(@.exitCode, logsOk))
                    ELSE Returning([@ EXCEPT !.stats = "failed"], "panic", RtNoResult)]
    /\ rtUnchanged

\* Execute: the deferred calls run, last registered first.
ExecuteDefers(w) ==
    /\ pc[w] = "execute"
    /\ rt[w].pc = "returning"
    /\ \E removed \in BOOLEAN, deleted \in BOOLEAN :
          rt' = [rt EXCEPT ![w] = [Defers(@, removed, deleted) EXCEPT !.pc = "returned"]]
    /\ rtUnchanged

\* Execute is over. executeFunction converts a result and returns it,
\* returns an error as an error; a panic is recovered nowhere and ends the
\* worker process.
ExecuteReturn(w) ==
    /\ pc[w] = "execute"
    /\ rt[w].pc = "returned"
    /\ rt' = [rt EXCEPT ![w] = RtIdle]
    /\ \/ /\ rt[w].out = "result"
          /\ res' = [res EXCEPT ![w] = ConvertResult(rt[w].result)]
          /\ pc' = [pc EXCEPT ![w] = AfterExecute(ConvertResult(rt[w].result))]
          /\ executed' = [executed EXCEPT ![req[w]] = @ + 1]
          /\ UNCHANGED <<msg, req, inv, runErr, updErr, acked, deliveries>>
       \/ /\ rt[w].out = "error"
          /\ pc' = [pc EXCEPT ![w] = "failed"]
          /\ UNCHANGED <<localVars, histVars>>
       \/ /\ rt[w].out = "panic"
          /\ Return(w)
          /\ UNCHANGED histVars
    /\ UNCHANGED <<queueVars, invocations, nextID, enqueueing, now, functions, stopped,
                   auxVars>>

\* main of the process of worker w on SIGINT/SIGTERM: w.Stop() closes the
\* worker's stopCh and cancel() cancels the context every call of the worker
\* runs under, execCtx included. main returns right after (ProcessExit).
\* Each worker is a process of its own, with its own signal.
Shutdown(w) ==
    /\ ~stopped[w]
    /\ stopped' = [stopped EXCEPT ![w] = TRUE]
    /\ rt' = [rt EXCEPT ![w] =
                 IF @.pc \in LivePcs /\ @.ctxErr = "none"
                 THEN [@ EXCEPT !.ctxErr = "canceled"]
                 ELSE @]
    /\ UNCHANGED <<queueVars, invocations, nextID, enqueueing, now, pc, localVars,
                   histVars, functions, auxVars>>

\* main of the process of worker w returns after Stop and cancel without
\* waiting for the worker goroutine: the process ends with the worker
\* wherever it is, and no deferred call of an Execute in progress runs. A
\* pipeline that was sent is carried out by the server.
ProcessExit(w) ==
    /\ stopped[w]
    /\ pc[w] \notin {"exited", "nackPush", "dlPush"}
    /\ pc' = [pc EXCEPT ![w] = "exited"]
    /\ msg' = [msg EXCEPT ![w] = NilMessage]
    /\ req' = [req EXCEPT ![w] = 0]
    /\ inv' = [inv EXCEPT ![w] = NilInvocation]
    /\ res' = [res EXCEPT ![w] = NilResult]
    /\ runErr' = [runErr EXCEPT ![w] = FALSE]
    /\ updErr' = [updErr EXCEPT ![w] = FALSE]
    /\ rt' = [rt EXCEPT ![w] = RtIdle]
    /\ UNCHANGED <<queueVars, invocations, nextID, enqueueing, now, histVars, functions,
                   stopped, auxVars>>

\* The worker processes that run the container runtime.
RuntimeWorkers == {1}

NextRuntime ==
    \/ InvokeCreate
    \/ \E i \in InvocationIDs : InvokeEnqueue(i)
    \/ \E w \in RuntimeWorkers :
          \/ Shutdown(w)
          \/ ProcessExit(w)
          \/ Start(w)
          \/ Dequeue(w)
          \/ DequeueNone(w)
          \/ WStatusRead(w)
          \/ WStatusApply(w)
          \/ WStatusWrite(w)
          \/ WGetFunction(w)
          \/ WRetrieve(w)
          \/ ExecuteImage(w)
          \/ ExecuteMkdir(w)
          \/ ExecuteWriteCode(w)
          \/ ExecuteCreate(w)
          \/ ExecuteStart(w)
          \/ ContainerExit(w)
          \/ DeadlineExpires(w)
          \/ WaitContainer(w)
          \/ ExecuteCheckTimeout(w)
          \/ ExecuteCollect(w)
          \/ ExecuteDefers(w)
          \/ ExecuteReturn(w)
          \/ WNack(w)
          \/ WNackPush(w)
          \/ WDeadLetter(w)
          \/ WDeadLetterPush(w)
          \/ WResultRead(w)
          \/ WResultApply(w)
          \/ WResultWrite(w)
          \/ WAck(w)
          \/ Crash(w)

SpecRuntime == Init /\ [][NextRuntime]_vars

\* ---------------------------------------------- SimpleRuntime.Execute
\* The worker's Execute step with the simple runtime (main falls back to it
\* when Docker is not available): the workers share one work directory.

\* SimpleRuntime.Execute: execDir = filepath.Join(r.workDir, spec.FunctionID).
SimpleExecDir(f) == <<"workDir", f>>

\* SimpleRuntime.Execute: the runtimes of its switch.
SimpleSupported(tag) == tag \in {"go", "python", "nodejs"}

\* The deferred os.RemoveAll(execDir) of SimpleRuntime.Execute, registered
\* once MkdirAll succeeded: the directory goes with all it holds.
SimpleDefers(r, dir) == IF r.dir = "present" THEN NoDirectory ELSE dir

\* What the command's run gives: started with the code file in place,
\* COMPLETED (with the output, which can be empty), FAILED (RuntimeError) or
\* TIMEOUT; the interpreter fails when the file is not there.
SimpleRunResults(started) ==
    IF started = "code"
    THEN {ExitResult(0, TRUE), ExitResult(0, FALSE), ExitResult(1, TRUE), TimeoutResult}
    ELSE {ExitResult(1, TRUE), TimeoutResult}

simpleUnchanged ==
    UNCHANGED <<queueVars, invocations, nextID, enqueueing, now, pc, localVars,
                histVars, functions, stopped, rejected, fnCode, blobs, calls, extVars>>

\* SimpleRuntime.Execute: os.MkdirAll(execDir) and defer os.RemoveAll(execDir).
SimpleMkdir(w) ==
    /\ pc[w] = "execute"
    /\ rt[w].pc = "idle"
    /\ \E ok \in BOOLEAN :
          IF ok
          THEN /\ rt' = [rt EXCEPT ![w] =
                            [@ EXCEPT !.pc = "simpleWrite", !.dir = "present",
                                      !.path = SimpleExecDir(TheFunction)]]
               /\ staging' = [staging EXCEPT !.exists = TRUE]
          ELSE /\ rt' = [rt EXCEPT ![w] = Returning(@, "error", RtNoResult)]
               /\ UNCHANGED staging
    /\ simpleUnchanged

\* SimpleRuntime.Execute: the switch on spec.Runtime and os.WriteFile of the
\* code, which fails when the directory is not there.
SimpleWriteCode(w) ==
    /\ pc[w] = "execute"
    /\ rt[w].pc = "simpleWrite"
    /\ \E tag \in RuntimeTags, ok \in BOOLEAN :
          IF ~SimpleSupported(tag)
          THEN /\ rt' = [rt EXCEPT ![w] =
                            Returning([@ EXCEPT !.tag = tag], "result", UnsupportedResult)]
               /\ UNCHANGED staging
          ELSE IF ok /\ staging.exists
          THEN /\ rt' = [rt EXCEPT ![w] = [@ EXCEPT !.pc = "simpleRun", !.tag = tag]]
               /\ staging' = [staging EXCEPT !.code = TRUE]
          ELSE /\ rt' = [rt EXCEPT ![w] =
                            Returning([@ EXCEPT !.tag = tag], "error", RtNoResult)]
               /\ UNCHANGED staging
    /\ simpleUnchanged

\* SimpleRuntime.Execute, cmd.CombinedOutput: the command is started and the
\* interpreter opens the code file, if it is there.
SimpleStart(w) ==
    /\ pc[w] = "execute"
    /\ rt[w].pc = "simpleRun"
    /\ rt' = [rt EXCEPT ![w] =
                 [@ EXCEPT !.pc = "simpleWait",
                           !.started = IF staging.code THEN "code" ELSE "nocode"]]
    /\ UNCHANGED staging
    /\ simpleUnchanged

\* SimpleRuntime.Execute, cmd.CombinedOutput returns: the timeout and error
\* checks and the return statement.
SimpleRun(w) ==
    /\ pc[w] = "execute"
    /\ rt[w].pc = "simpleWait"
    /\ \E r \in SimpleRunResults(rt[w].started) :
          rt' = [rt EXCEPT ![w] = Returning(@, "result", r)]
    /\ UNCHANGED staging
    /\ simpleUnchanged

\* SimpleRuntime.Execute: the deferred os.RemoveAll(execDir) runs; its error
\* is dropped.
SimpleCleanup(w) ==
    /\ pc[w] = "execute"
    /\ rt[w].pc = "returning"
    /\ \E deleted \in BOOLEAN :
          /\ rt' = [rt EXCEPT ![w] = [Defers(@, FALSE, deleted) EXCEPT !.pc = "returned"]]
          /\ staging' = IF deleted THEN SimpleDefers(rt[w], staging) ELSE staging
    /\ simpleUnchanged

\* SimpleRuntime.Execute is over: executeFunction converts a result and
\* returns it, returns an error as an error.
SimpleReturn(w) ==
    /\ pc[w] = "execute"
    /\ rt[w].pc = "returned"
    /\ rt' = [rt EXCEPT ![w] = RtIdle]
    /\ \/ /\ rt[w].out = "result"
          /\ res' = [res EXCEPT ![w] = ConvertResult(rt[w].result)]
          /\ pc' = [pc EXCEPT ![w] = AfterExecute(ConvertResult(rt[w].result))]
          /\ executed' = [executed EXCEPT ![req[w]] = @ + 1]
          /\ UNCHANGED <<msg, req, inv, runErr, updErr, acked, deliveries>>
       \/ /\ rt[w].out = "error"
          /\ pc' = [pc EXCEPT ![w] = "failed"]
          /\ UNCHANGED <<localVars, histVars>>
    /\ UNCHANGED <<queueVars, invocations, nextID, enqueueing, now, functions, stopped,
                   auxVars>>

NextSimple ==
    \/ InvokeCreate
    \/ \E i \in InvocationIDs : InvokeEnqueue(i)
    \/ \E w \in Workers :
          \/ Start(w)
          \/ Dequeue(w)
          \/ DequeueNone(w)
          \/ WStatusRead(w)
          \/ WStatusApply(w)
          \/ WStatusWrite(w)
          \/ WGetFunction(w)
          \/ WRetrieve(w)
          \/ SimpleMkdir(w)
          \/ SimpleWriteCode(w)
          \/ SimpleStart(w)
          \/ SimpleRun(w)
          \/ SimpleCleanup(w)
          \/ SimpleReturn(w)
          \/ WNack(w)
          \/ WNackPush(w)
          \/ WDeadLetter(w)
          \/ WDeadLetterPush(w)
          \/ WResultRead(w)
          \/ WResultApply(w)
          \/ WResultWrite(w)
          \/ WAck(w)
          \/ Crash(w)

SpecSimple == Init /\ [][NextSimple]_vars

\* ------------------------------------------------- the Service on its own
\* The two update operations of invocation.Service called by concurrent
\* callers, each call a GetByID followed by an Update. An update touches the
\* one row its id names (WHERE id = $1), so the callers here all name the
\* same invocation: that is where their steps can interleave.
ServiceIDs == {1}

InitService ==
    /\ ready = <<>>
    /\ processing = EmptyBag
    /\ deadLetter = EmptyBag
    /\ invocations = [i \in InvocationIDs |-> NewInvocation(0)]
    /\ nextID = MaxInvocations
    /\ enqueueing = {}
    /\ now = 0
    /\ pc = [w \in Workers |-> "idle"]
    /\ msg = [w \in Workers |-> NilMessage]
    /\ req = [w \in Workers |-> 0]
    /\ inv = [w \in Workers |-> NilInvocation]
    /\ res = [w \in Workers |-> NilResult]
    /\ runErr = [w \in Workers |-> FALSE]
    /\ updErr = [w \in Workers |-> FALSE]
    /\ acked = {}
    /\ deliveries = [i \in InvocationIDs |-> 0]
    /\ executed = [i \in InvocationIDs |-> 0]
    /\ functions = {TheFunction}
    /\ rt = [w \in Workers |-> RtIdle]
    /\ stopped = [w \in Workers |-> FALSE]
    /\ rejected = {}
    /\ fnCode = [f \in FunctionIDs |->
                 IF f = TheFunction THEN FunctionRow(f, InitialCode) ELSE NilFunction]
    /\ blobs = [l \in Locations |->
                IF l = CodeLocation(TheFunction) THEN InitialCode ELSE NoCode]
    /\ calls = [c \in Callers |-> IdleCall]
    /\ staging = NoDirectory
    /\ orphaned = {}
    /\ SideInit

\* Service.UpdateInvocationStatus(id, running): GetByID.
UpdateInvocationStatusRead(w, i) ==
    /\ pc[w] = "idle"
    /\ i \in DOMAIN invocations
    /\ req' = [req EXCEPT ![w] = i]
    /\ inv' = [inv EXCEPT ![w] = GetInvocationByID(invocations, i)]
    /\ pc' = [pc EXCEPT ![w] = "svcStatusApply"]
    /\ UNCHANGED <<queueVars, invocations, nextID, enqueueing, now, msg, res, runErr,
                   updErr, histVars>>
    /\ UNCHANGED envVars

\* Service.UpdateInvocationStatus(id, running): time.Now() is read and the
\* row is changed in memory.
UpdateInvocationStatusApply(w) ==
    /\ pc[w] = "svcStatusApply"
    /\ inv' = [inv EXCEPT ![w] = ApplyStatus(@, StatusRunning, now)]
    /\ pc' = [pc EXCEPT ![w] = "svcStatusWrite"]
    /\ UNCHANGED <<queueVars, invocations, nextID, enqueueing, now, msg, req, res,
                   runErr, updErr, histVars>>
    /\ UNCHANGED envVars

\* Service.UpdateInvocationStatus(id, running): Update writes the row as
\* changed in memory; the call returns.
UpdateInvocationStatusWrite(w) ==
    /\ pc[w] = "svcStatusWrite"
    /\ invocations' = UpdateInvocation(invocations, req[w], inv[w])
    /\ Return(w)
    /\ UNCHANGED <<queueVars, nextID, enqueueing, now, histVars>>
    /\ UNCHANGED envVars

\* Service.UpdateInvocationResult(id, result): GetByID.
UpdateInvocationResultRead(w, i, r) ==
    /\ pc[w] = "idle"
    /\ i \in DOMAIN invocations
    /\ req' = [req EXCEPT ![w] = i]
    /\ res' = [res EXCEPT ![w] = r]
    /\ inv' = [inv EXCEPT ![w] = GetInvocationByID(invocations, i)]
    /\ pc' = [pc EXCEPT ![w] = "svcResultApply"]
    /\ UNCHANGED <<queueVars, invocations, nextID, enqueueing, now, msg, runErr,
                   updErr, histVars>>
    /\ UNCHANGED envVars

\* Service.UpdateInvocationResult(id, result): the result is set on the
\* row in memory and time.Now() is read for the timestamps.
UpdateInvocationResultApply(w) ==
    /\ pc[w] = "svcResultApply"
    /\ inv' = [inv EXCEPT ![w] = ApplyResult(@, res[w], now)]
    /\ pc' = [pc EXCEPT ![w] = "svcResultWrite"]
    /\ UNCHANGED <<queueVars, invocations, nextID, enqueueing, now, msg, req, res,
                   runErr, updErr, histVars>>
    /\ UNCHANGED envVars

\* Service.UpdateInvocationResult(id, result): Update writes the row as
\* changed in memory; the call returns.
UpdateInvocationResultWrite(w) ==
    /\ pc[w] = "svcResultWrite"
    /\ invocations' = UpdateInvocation(invocations, req[w], inv[w])
    /\ Return(w)
    /\ UNCHANGED <<queueVars, nextID, enqueueing, now, histVars>>
    /\ UNCHANGED envVars

NextService ==
    \/ Tick
    \/ \E w \in Workers :
          \/ \E i \in ServiceIDs : UpdateInvocationStatusRead(w, i)
          \/ UpdateInvocationStatusApply(w)
          \/ UpdateInvocationStatusWrite(w)
          \/ \E i \in ServiceIDs, r \in ExecutionResults :
                UpdateInvocationResultRead(w, i, r)
          \/ UpdateInvocationResultApply(w)
          \/ UpdateInvocationResultWrite(w)

SpecService == InitService /\ [][NextService]_vars

\* ------------------------- the workers' loops, every kind of message
NextSteady ==
    \/ NextLive
    \/ EnqueueInvalid
    \/ \E w \in Workers : WDeadLetterInvalid(w)
    \/ \E w \in Workers : Shutdown(w)
    \/ \E w \in Workers : ProcessExit(w)

\* The pipeline without crashes, with messages that do not parse and with
\* the shutdown of the process.
SpecSteady == Init /\ [][NextSteady]_vars

\* ---------------------------------------- the timeout of an execution
\* Everything but the state of the components beside the queue.
coreVars == <<queueVars, invocations, nextID, enqueueing, now, pc, localVars,
              histVars, functions, rt, stopped, rejected, fnCode, blobs, calls,
              staging, orphaned>>

\* InvokeAsync: execReq.Timeout is req.Timeout, or a pointer to the
\* function's timeout as GetByID has just read it when req.Timeout is nil.
ExecReqTimeout(override, configured) ==
    IF override = NilTimeout THEN configured ELSE override

\* executeFunction: fn.Config.Timeout unless req.Timeout is not nil.
ExecutionTimeout(carried, configured) ==
    IF carried # NilTimeout THEN carried ELSE configured

\* InvokeAsync for invocation i with the client's override (or none): the
\* execution request is marshalled into the message.
InvokeTimeout(i, override) ==
    /\ texec[i].pc = "none"
    /\ texec' = [texec EXCEPT ![i] =
                    [@ EXCEPT !.pc = "queued", !.override = override,
                              !.wire = MarshalTimeout(
                                           ExecReqTimeout(override, fnTimeout))]]
    /\ UNCHANGED <<fnTimeout, coreVars, logVars, rateVars>>

\* UpdateFunction with req.Timeout = t, a positive duration.
UpdateFunctionTimeout(t) ==
    /\ t # fnTimeout
    /\ fnTimeout' = t
    /\ UNCHANGED <<texec, coreVars, logVars, rateVars>>

\* executeFunction for invocation i: the request is unmarshalled, GetByID
\* reads the function and the timeout of the ExecutionSpec is determined.
ExecuteTimeout(i) ==
    /\ texec[i].pc = "queued"
    /\ texec' = [texec EXCEPT ![i] =
                    [@ EXCEPT !.pc = "done", !.resolved = fnTimeout,
                              !.used = ExecutionTimeout(
                                           UnmarshalTimeout(texec[i].wire),
                                           fnTimeout)]]
    /\ UNCHANGED <<fnTimeout, coreVars, logVars, rateVars>>

NextTimeout ==
    \/ \E i \in 1..MaxInvocations, o \in Timeouts \cup {NilTimeout} : InvokeTimeout(i, o)
    \/ \E t \in Timeouts : UpdateFunctionTimeout(t)
    \/ \E i \in 1..MaxInvocations : ExecuteTimeout(i)

\* Invocations and updates of the function's timeout.
SpecTimeout == Init /\ [][NextTimeout]_vars

\* --------------------------------------------- the logs of a container
\* The frames a container may have written.
Payloads == UNION {[1..n -> LogBytes] : n \in 0..MaxPayload}
Frames == [stream : StreamTypes, payload : Payloads]
FrameSeqs == UNION {[1..n -> Frames] : n \in 0..MaxFrames}

\* What docker's ContainerLogs hands to io.ReadAll: the multiplexed stream
\* of the frames, whole or cut short by one byte.
Streams(frames) ==
    LET whole == Multiplex(frames)
    IN  {whole} \cup (IF whole = <<>> THEN {} ELSE {SubSeq(whole, 1, Len(whole) - 1)})

\* A container has exited and its log stream is there to be read.
InitContainerLogs ==
    /\ InitPipeline
    /\ InitTimeout
    /\ InitRate
    /\ \E frames \in FrameSeqs : \E raw \in Streams(frames) :
           clogs = [NoLogs EXCEPT !.pc = "read", !.frames = frames, !.raw = raw]

\* Client.GetContainerLogs as Execute calls it: the stream is read and its
\* headers are stripped; on an error Execute goes on with logs = []byte{}.
GetContainerLogs ==
    /\ clogs.pc = "read"
    /\ \E ok \in BOOLEAN :
          clogs' = [clogs EXCEPT !.pc = "stripped", !.readErr = ~ok,
                                 !.out = IF ok THEN stripDockerLogHeaders(clogs.raw)
                                               ELSE <<>>]
    /\ UNCHANGED <<fnTimeout, texec, coreVars, rateVars>>

\* ContainerRuntime.Execute builds the result from the exit code: the logs
\* are the result of exit code 0 and the message of a RuntimeError else.
ExecuteBuildResult(exitCode) ==
    /\ clogs.pc = "stripped"
    /\ clogs' = [clogs EXCEPT !.pc = "built", !.exitCode = exitCode,
                              !.status = IF exitCode = 0 THEN StatusCompleted
                                                         ELSE StatusFailed,
                              !.result = IF exitCode = 0 THEN clogs.out ELSE <<>>]
    /\ UNCHANGED <<fnTimeout, texec, coreVars, rateVars>>

NextLogs ==
    \/ GetContainerLogs
    \/ \E exitCode \in {0, 1} : ExecuteBuildResult(exitCode)

\* The logs of one exited container, from the stream to the result.
SpecLogs == InitContainerLogs /\ [][NextLogs]_vars

\* ------------------------------------------------ RateLimitMiddleware
\* What a step of the middleware leaves alone.
rateUnchanged == UNCHANGED <<fnTimeout, texec, logVars, coreVars>>

\* time.Now() advances.
RateTick ==
    /\ rclock < MaxRateClock
    /\ rclock' = rclock + 1
    /\ UNCHANGED <<zset, rl, rstarted, passed>>
    /\ rateUnchanged

\* No request that read the timestamp t has got as far as Redis or as the
\* answer: the clock has moved on by the time a request has made a round
\* trip, so only requests that run side by side read the same timestamp.
FreshTimestamp(t) ==
    /\ t \notin zset
    /\ passed[t] = 0
    /\ \A o \in Handlers : rl[o].pc \in {"idle", "exec"} \/ rl[o].now # t

\* Middleware receives a request for the key; checkRateLimit reads
\* time.Now() and queues the four commands on a pipeline.
RateStart(h) ==
    /\ rl[h].pc = "idle"
    /\ rstarted < MaxRequests
    /\ FreshTimestamp(rclock)
    /\ rstarted' = rstarted + 1
    /\ rl' = [rl EXCEPT ![h] = [pc |-> "exec", now |-> rclock, count |-> 0]]
    /\ UNCHANGED <<zset, rclock, passed>>
    /\ rateUnchanged

\* pipe.Exec returns an error (Redis is not reachable): checkRateLimit
\* returns it and Middleware fails open, the request goes to next.ServeHTTP.
RateExecFails(h) ==
    /\ rl[h].pc = "exec"
    /\ passed' = [passed EXCEPT ![rl[h].now] = @ + 1]
    /\ rl' = [rl EXCEPT ![h] = IdleHandler]
    /\ UNCHANGED <<zset, rclock, rstarted>>
    /\ rateUnchanged

\* ZREMRANGEBYSCORE key 0 windowStart: the members with a score up to
\* now - windowDuration leave the set.
RateZRemRangeByScore(h) ==
    /\ rl[h].pc = "exec"
    /\ zset' = {m \in zset : m > rl[h].now - WindowDuration}
    /\ rl' = [rl EXCEPT ![h] = [@ EXCEPT !.pc = "zcard"]]
    /\ UNCHANGED <<rclock, rstarted, passed>>
    /\ rateUnchanged

\* ZCARD key
RateZCard(h) ==
    /\ rl[h].pc = "zcard"
    /\ rl' = [rl EXCEPT ![h] = [@ EXCEPT !.pc = "zadd", !.count = Cardinality(zset)]]
    /\ UNCHANGED <<zset, rclock, rstarted, passed>>
    /\ rateUnchanged

\* ZADD key now now: the member is the timestamp, so a second request with
\* the same timestamp adds nothing. (EXPIRE follows; it has no effect while
\* requests keep coming.)
RateZAdd(h) ==
    /\ rl[h].pc = "zadd"
    /\ zset' = zset \cup {rl[h].now}
    /\ rl' = [rl EXCEPT ![h] = [@ EXCEPT !.pc = "decide"]]
    /\ UNCHANGED <<rclock, rstarted, passed>>
    /\ rateUnchanged

\* checkRateLimit: allowed = count < requestsPerWindow; Middleware passes the
\* request on or answers with the rate-limit error.
RateDecide(h) ==
    /\ rl[h].pc = "decide"
    /\ passed' = IF rl[h].count < RequestsPerWindow
                 THEN [passed EXCEPT ![rl[h].now] = @ + 1]
                 ELSE passed
    /\ rl' = [rl EXCEPT ![h] = IdleHandler]
    /\ UNCHANGED <<zset, rclock, rstarted>>
    /\ rateUnchanged

NextRate ==
    \/ RateTick
    \/ \E h \in Handlers :
          \/ RateStart(h)
          \/ RateExecFails(h)
          \/ RateZRemRangeByScore(h)
          \/ RateZCard(h)
          \/ RateZAdd(h)
          \/ RateDecide(h)

\* Concurrent requests on one rate-limit key.
SpecRate == Init /\ [][NextRate]_vars

\* ================================================================ claims
InReady(id) == id \in IdsOf(ready)
InProcessing(id) == id \in IdsOfBag(processing)
InDeadLetter(id) == id \in IdsOfBag(deadLetter)

\* The message was enqueued: InvokeAsync got past its Enqueue call.
Enqueued(id) == id \in 1..nextID /\ id \notin enqueueing /\ id \notin orphaned

\* The worker holds a message it got from Dequeue.
Holding(w) == pc[w] \notin {"idle", "dequeue"}

\* C1: at every reachable state each message is in at most one of the
\* buckets ready, processing and dead-letter (or in none: absent).
C1_ExactlyOneBucket ==
    \A id \in InvocationIDs :
        /\ ~(InReady(id) /\ InProcessing(id))
        /\ ~(InReady(id) /\ InDeadLetter(id))
        /\ ~(InProcessing(id) /\ InDeadLetter(id))

\* C2: once N messages have been enqueued, each dequeued once and each
\* acked, ready, processing and dead-letter are all empty.
C2_AckEmptiesQueue ==
    ( /\ nextID = MaxInvocations
      /\ acked = InvocationIDs
      /\ \A id \in InvocationIDs : deliveries[id] = 1 )
    => ( /\ ready = <<>>
         /\ processing = EmptyBag
         /\ deadLetter = EmptyBag )

\* C3: once an invocation's status is COMPLETED, FAILED or TIMEOUT, no step
\* of UpdateInvocationStatus or UpdateInvocationResult leaves that set.
C3_TerminalAbsorbing ==
    [][ \A id \in DOMAIN invocations :
            IsTerminal(invocations[id].status) => IsTerminal(invocations'[id].status)
      ]_vars

\* C4: a message dead-lettered with "max retries exceeded" has its
\* invocation FAILED with error kind RetryExhausted.
C4_RetryExhaustedFailed ==
    \A s \in BagToSet(deadLetter) :
        Unmarshal(s).reason = "max retries exceeded"
        => /\ invocations[Unmarshal(s).payload].status = StatusFailed
           /\ invocations[Unmarshal(s).payload].error = "RetryExhausted"

\* C5: a message is acked only once the terminal state of its
\* invocation has been written.
C5_AckOnlyAfterTerminalWrite ==
    \A id \in acked : IsTerminal(invocations[id].status)

\* C6, as claimed: whenever the worker nacks, the invocation is RUNNING.
C6_NackLeavesRunning ==
    \A w \in Workers :
        pc[w] = "nackPush" => invocations[req[w]].status = StatusRunning

\* C6, amended: the worker nacks only while msg.Attempts < 3 and writes no
\* terminal state: the invocation is RUNNING, or PENDING when this worker's
\* update to RUNNING failed; at Attempts >= 3 it dead-letters; no message is
\* delivered more than 3 times.
C6_NackBoundedRetry ==
    /\ \A w \in Workers :
          /\ pc[w] = "nackPush"
             => /\ msg[w].attempts < MaxAttempts
                /\ invocations[req[w]].status \in {StatusPending, StatusRunning}
                /\ ~runErr[w] => invocations[req[w]].status = StatusRunning
          /\ pc[w] = "dlPush" => msg[w].attempts >= MaxAttempts
    /\ \A id \in InvocationIDs : deliveries[id] <= MaxAttempts

\* C6 witness: a worker nacks a message whose invocation is still PENDING
\* because its update to RUNNING failed.
C6_Witness ==
    \E w \in Workers :
        /\ pc[w] = "nackPush"
        /\ runErr[w]
        /\ invocations[req[w]].status = StatusPending

\* C7: a message that nack has put back in ready (attempts > 0) is no
\* longer in processing.
C7_NackMovesToReady ==
    \A k \in 1..Len(ready) :
        Unmarshal(ready[k]).attempts > 0 => ~InProcessing(Unmarshal(ready[k]).id)

\* C8: a message in dead-letter carries a reason and a dead_lettered_at
\* timestamp and is no longer in processing.
C8_DeadLetterMoves ==
    \A s \in BagToSet(deadLetter) :
        /\ Unmarshal(s).reason # Nil
        /\ Unmarshal(s).dlAt # NullTime
        /\ ~InProcessing(Unmarshal(s).id)

\* C9: a message that was enqueued and is neither acked nor dead-lettered
\* is in ready or in processing, and a message a worker holds is in
\* processing; a crash of the worker changes neither.
C9_NeverLost ==
    /\ \A id \in InvocationIDs :
          (Enqueued(id) /\ id \notin acked /\ ~InDeadLetter(id))
          => (InReady(id) \/ InProcessing(id))
    /\ \A w \in Workers : Holding(w) => InProcessing(msg[w].id)

\* C9 witness: a worker has crashed after Dequeue: the message is in
\* processing, unacked, and no worker holds it.
C9_Witness ==
    \E id \in InvocationIDs :
        /\ InProcessing(id)
        /\ ~InReady(id)
        /\ ~InDeadLetter(id)
        /\ id \notin acked
        /\ \A w \in Workers : ~(Holding(w) /\ msg[w].id = id)

\* C10: no two workers hold the same message at the same time.
C10_SingleOwner ==
    \A w1 \in Workers, w2 \in Workers :
        (w1 # w2 /\ Holding(w1) /\ Holding(w2)) => msg[w1].id # msg[w2].id

\* C10 witness: two workers have dequeued concurrently and each holds a
\* message of its own.
C10_Witness ==
    \E w1 \in Workers, w2 \in Workers :
        /\ w1 # w2
        /\ Holding(w1)
        /\ Holding(w2)
        /\ msg[w1].id # msg[w2].id

\* C11: the message returned by the k-th Dequeue of a message carries
\* attempts = k, and so does the copy of it held in processing during that
\* delivery.
C11_AttemptsCountDeliveries ==
    \A w \in Workers :
        Holding(w)
        => /\ msg[w].attempts = deliveries[msg[w].id]
           /\ \E s \in BagToSet(processing) :
                 /\ Unmarshal(s).id = msg[w].id
                 /\ Unmarshal(s).attempts = deliveries[msg[w].id]

\* C12: a worker that has obtained a structured result goes on to the
\* result update and the ack, never to nack or dead-letter; the message of
\* an invocation that has a structured result is never back in ready nor in
\* dead-letter, and no invocation gets a second structured result.
C12_StructuredResultFinal ==
    /\ \A w \in Workers :
          res[w] # NilResult => pc[w] \in {"resultRead", "resultApply", "resultWrite", "ack"}
    /\ \A id \in InvocationIDs :
          /\ executed[id] <= 1
          /\ executed[id] = 1 => (~InReady(id) /\ ~InDeadLetter(id))

\* C12 witness: a message whose execution ended FAILED or TIMEOUT has been
\* acked, after one execution.
C12_Witness ==
    \E id \in acked :
        /\ executed[id] = 1
        /\ invocations[id].status \in {StatusFailed, StatusTimeout}

\* C13: whenever a message for invocation i is in ready or in
\* processing, or InvokeAsync has returned a handle for i, the invocations
\* table has a row for i.
C13_RowWhileQueued ==
    \A id \in InvocationIDs :
        (InReady(id) \/ InProcessing(id) \/ Enqueued(id))
        => /\ id \in DOMAIN invocations
           /\ GetInvocationByID(invocations, id).status # Nil

\* The timestamps of a row are in order, as far as they are set.
TimesOrdered(row) ==
    /\ row.startedAt # NullTime => row.startedAt >= row.createdAt
    /\ row.completedAt # NullTime
       => (row.startedAt # NullTime /\ row.completedAt >= row.startedAt)

\* C14: an invocation that is RUNNING or terminal has started_at set, a
\* terminal one has completed_at set with completed_at >= started_at >=
\* created_at, and no step changes a started_at that is set.
C14_Timestamps ==
    /\ [](\A id \in DOMAIN invocations :
             /\ invocations[id].status # StatusPending
                => invocations[id].startedAt # NullTime
             /\ IsTerminal(invocations[id].status)
                => invocations[id].completedAt # NullTime
             /\ TimesOrdered(invocations[id]))
    /\ [][ \A id \in DOMAIN invocations :
               invocations[id].startedAt # NullTime
               => invocations'[id].startedAt = invocations[id].startedAt ]_vars

\* C14 witness: an invocation is terminal after a second delivery, created,
\* started and completed at three different times.
C14_Witness ==
    \E id \in DOMAIN invocations :
        /\ IsTerminal(invocations[id].status)
        /\ deliveries[id] >= 2
        /\ invocations[id].createdAt < invocations[id].startedAt
        /\ invocations[id].startedAt < invocations[id].completedAt

\* The row carries the terminal outcome r: status, result, error, metrics.
CarriesOutcome(row, r) ==
    /\ IsTerminal(row.status)
    /\ row.status = r.status
    /\ row.result = r.result
    /\ row.error = r.error
    /\ row.metrics = r.metrics

\* C15: UpdateInvocationResult applied with an outcome the row already
\* carries (the same outcome applied a second time, with no other update in
\* between) leaves the row as it was.
C15_TerminalWriteIdempotent ==
    [][ \A w \in Workers :
            ( /\ pc[w] = "svcResultWrite"
              /\ pc'[w] = "idle"
              /\ \E t \in 0..MaxClock :
                    inv[w] = ApplyResult(invocations[req[w]], res[w], t)
              /\ CarriesOutcome(invocations[req[w]], res[w]) )
            => invocations'[req[w]] = invocations[req[w]]
      ]_vars

\* Execute has ended and the worker has not yet taken up its outcome.
ExecuteOver(w) == rt[w].pc = "returned"

\* C16: whatever step fails, Execute ends with a structured result whose
\* status is COMPLETED, FAILED or TIMEOUT: never with an error and no
\* result, never in a panic.
C16_ExecuteNeverThrows ==
    \A w \in Workers :
        ExecuteOver(w)
        => /\ rt[w].out = "result"
           /\ IsTerminal(rt[w].result.status)

\* C17: when WaitContainer received the container's status while the
\* deadline had not expired, the result Execute returns is COMPLETED for
\* exit code 0 and FAILED with RuntimeError otherwise; TIMEOUT is returned
\* only when the deadline expired before a status was received.
C17_WaitOutcomesDisjoint ==
    \A w \in Workers :
        (ExecuteOver(w) /\ rt[w].out = "result")
        => /\ (rt[w].waited = "status" /\ rt[w].early)
              => /\ rt[w].exitCode = 0 => rt[w].result.status = StatusCompleted
                 /\ rt[w].exitCode # 0
                    => /\ rt[w].result.status = StatusFailed
                       /\ rt[w].result.error = "RuntimeError"
           /\ rt[w].result.status = StatusTimeout
              => /\ rt[w].ctxErr = "deadline"
                 /\ ~(rt[w].waited = "status" /\ rt[w].early)

\* The deadline expired during the wait and WaitContainer took the Done of
\* execCtx; Execute has ended.
TimedOutInWait(w) ==
    /\ ExecuteOver(w)
    /\ rt[w].waited = "done"
    /\ rt[w].ctxErr = "deadline"

\* C18: when the deadline expires during the wait the container
\* is killed (SIGKILL, under a context that is not done) and then removed,
\* Execute returns TIMEOUT with TimeoutError, and by the time the worker
\* acks the message the invocation is recorded as TIMEOUT.
C18_TimeoutKilledAndRecorded ==
    \A w \in Workers :
        /\ TimedOutInWait(w)
           => /\ rt[w].killed
              /\ rt[w].container = "removed"
              /\ rt[w].out = "result"
              /\ rt[w].result = TimeoutResult
        /\ (pc[w] = "ack" /\ res[w].status = StatusTimeout)
           => GetInvocationByID(invocations, req[w]).status = StatusTimeout

\* The deferred removals of an Execute that has ended were both called, and
\* what a call that succeeded was to remove is gone.
RemovalsCalled(w) ==
    /\ rt[w].rmContainer \in {"ok", "failed"}
    /\ rt[w].rmContainer = "ok" => rt[w].container = "removed"
    /\ rt[w].rmDir \in {"ok", "failed"}
    /\ rt[w].rmDir = "ok" => rt[w].dir = "removed"

\* C19, as claimed: when Execute has ended, however it ended, the container
\* it created is removed and the staging directory it created is deleted.
C19_CleanupOnEveryPath ==
    \A w \in Workers :
        ExecuteOver(w)
        => /\ rt[w].container \in {"none", "removed"}
           /\ rt[w].dir \in {"none", "removed"}

\* C19, amended: when Execute has ended, however it ended, the removal of
\* the container it created and the deletion of the directory it created
\* have been called; each is gone exactly when its call succeeded, and
\* stays when the call failed, an error Execute drops.
C19_CleanupCalledOnEveryPath ==
    \A w \in Workers :
        ExecuteOver(w)
        => /\ rt[w].container = "none" <=> rt[w].rmContainer = "none"
           /\ rt[w].container = "removed" <=> rt[w].rmContainer = "ok"
           /\ rt[w].dir = "none" <=> rt[w].rmDir = "none"
           /\ rt[w].dir = "removed" <=> rt[w].rmDir = "ok"

\* C19 witness: Execute ended in a panic after the container had run; the
\* removal of the container failed and the container is still there, the
\* directory is gone.
C19_Witness ==
    \E w \in Workers :
        /\ ExecuteOver(w)
        /\ rt[w].out = "panic"
        /\ rt[w].rmContainer = "failed"
        /\ rt[w].container \notin {"none", "removed"}
        /\ rt[w].dir = "removed"

\* C20: shutdown does not cancel an execution in flight: a container is
\* killed only because its own deadline expired.
C20_ShutdownLetsExecutionFinish ==
    \A w \in Workers :
        rt[w].killed => rt[w].ctxErr = "deadline"

\* C21: a worker whose functionRepo.GetByID finds no function (NotFound)
\* goes on to record the invocation as failed and to ack the message; it
\* does not take the path of an execution error, on which the message is
\* nacked and retried.
C21_MissingFunctionFailsAndAcks ==
    [][ \A w \in Workers :
            ( /\ pc[w] = "getFunction"
              /\ TheFunction \notin functions
              /\ pc'[w] \notin {"getFunction", "idle"} )
            => pc'[w] \in {"resultRead", "resultApply", "resultWrite", "ack"}
      ]_vars

\* C22: an InvokeAsync call that returns NotFound changes neither the
\* invocations table nor any list of the queue, and while the function is
\* not registered no InvokeAsync call generates an invocation id, inserts a
\* row or starts an enqueue.
C22_MissingFunctionNoEffect ==
    /\ [][ rejected' # rejected
           => /\ invocations' = invocations
              /\ nextID' = nextID
              /\ enqueueing' = enqueueing
              /\ <<ready, processing, deadLetter>>' = <<ready, processing, deadLetter>>
       ]_vars
    /\ [][ TheFunction \notin functions
           => /\ nextID' = nextID
              /\ DOMAIN invocations' \subseteq DOMAIN invocations
              /\ enqueueing' \subseteq enqueueing
              /\ IdsOf(ready') \subseteq IdsOf(ready) \cup enqueueing
                                 \cup {msg[w].id : w \in Workers}
       ]_vars

\* C22 witness: InvokeAsync was rejected for the function after it had been
\* deleted, while a request made before the deletion is still queued.
C22_Witness ==
    /\ TheFunction \in rejected
    /\ TheFunction \notin functions
    /\ nextID >= 1
    /\ Len(ready) > 0

\* The message's payload is not an ExecutionRequest.
Unparsable(m) == m.payload = BadPayload

\* C23: a worker that has dequeued an unparsable message only dead-letters
\* it, with the reason "invalid payload": it parses no request and obtains
\* no result; the steps it takes with the message change no invocation row
\* and execute nothing, and after the dead-letter push it is idle, ready for
\* the next message. An unparsable message is never put back in ready.
C23_InvalidPayloadDeadLettered ==
    /\ [](/\ \A w \in Workers :
                (Holding(w) /\ Unparsable(msg[w]))
                => /\ pc[w] \in {"invalid", "dlPush"}
                   /\ req[w] = 0
                   /\ res[w] = NilResult
                   /\ pc[w] = "dlPush" => msg[w].reason = "invalid payload"
          /\ \A s \in BagToSet(deadLetter) :
                Unparsable(Unmarshal(s)) => Unmarshal(s).reason = "invalid payload"
          /\ \A k \in 1..Len(ready) :
                Unparsable(Unmarshal(ready[k])) => Unmarshal(ready[k]).attempts = 0)
    /\ [][ \A w \in Workers :
               (Unparsable(msg[w]) /\ pc'[w] # pc[w])
               => /\ invocations' = invocations
                  /\ executed' = executed
                  /\ pc[w] = "dlPush"
                     => /\ pc'[w] = "idle"
                        /\ ready' = ready
                        /\ BagIn(Marshal(msg[w]), deadLetter')
       ]_vars

\* C23 witness: an unparsable message is in dead-letter with its reason
\* while a worker is processing a request that parsed.
C23_Witness ==
    /\ \E s \in BagToSet(deadLetter) :
          /\ Unparsable(Unmarshal(s))
          /\ Unmarshal(s).reason = "invalid payload"
    /\ \E w \in Workers : pc[w] = "statusWrite" /\ ~Unparsable(msg[w])

\* The runtime tags of the specification: GO, PYTHON, NODEJS.
SupportedTags == {"go", "python", "nodejs"}

\* The error types of the failures Execute detects before it stages code.
PreExecutionErrors == {"UnsupportedRuntime", "ImageError"}

\* Execute ended before it staged anything, with the given result.
EndedBeforeStaging(r, result) ==
    /\ r.out = "result"
    /\ r.result = result
    /\ r.container = "none"
    /\ r.dir = "none"

\* C24: Execute returns FAILED with UnsupportedRuntime for a tag
\* other than GO, PYTHON, NODEJS and FAILED with ImageError for a failed
\* image pull, creating no container; and when the worker acks the message
\* of such an execution the invocation is recorded as FAILED.
C24_PreExecutionRecordedFailed ==
    \A w \in Workers :
        /\ (ExecuteOver(w) /\ rt[w].tag \notin SupportedTags)
           => EndedBeforeStaging(rt[w], UnsupportedResult)
        /\ (ExecuteOver(w) /\ rt[w].image = "failed")
           => EndedBeforeStaging(rt[w], ImageErrorResult)
        /\ (pc[w] = "ack" /\ res[w].error \in PreExecutionErrors)
           => GetInvocationByID(invocations, req[w]).status = StatusFailed

\* C25: at every reachable state the code stored at a registered function's
\* code location hashes to the checksum of the function's row.
C25_ChecksumMatchesStoredCode ==
    \A f \in functions :
        /\ StorageRetrieve(blobs, fnCode[f].source) # NoCode
        /\ SHA256Hash(StorageRetrieve(blobs, fnCode[f].source)) = fnCode[f].checksum

\* C26: a message that is in the dead-letter list is not in the ready list
\* and no worker holds it, and no step delivers it again or takes it out of
\* the dead-letter list.
C26_DeadLetterNeverRedelivered ==
    /\ [](\A id \in InvocationIDs :
             InDeadLetter(id)
             => /\ ~InReady(id)
                /\ \A w \in Workers : ~(Holding(w) /\ msg[w].id = id))
    /\ [][ \A id \in InvocationIDs :
               InDeadLetter(id)
               => /\ deliveries'[id] = deliveries[id]
                  /\ id \in IdsOfBag(deadLetter')
       ]_vars

\* C26 witness: a message is in dead-letter after its third delivery while
\* a worker has dequeued another message.
C26_Witness ==
    \E id \in InvocationIDs :
        /\ InDeadLetter(id)
        /\ deliveries[id] = MaxAttempts
        /\ \E w \in Workers :
              /\ pc[w] = "statusRead"
              /\ msg[w].id # id

\* C27: when WaitContainer returned an error of the driver and the deadline
\* has not expired, the result Execute returns is FAILED with error type
\* ContainerError.
C27_WaitErrorIsContainerError ==
    \A w \in Workers :
        ( /\ ExecuteOver(w)
          /\ rt[w].out = "result"
          /\ rt[w].waited = "error"
          /\ rt[w].ctxErr # "deadline" )
        => /\ rt[w].result.status = StatusFailed
           /\ rt[w].result.error = "ContainerError"

\* C28: when the deadline expires during CreateContainer or StartContainer
\* (before the wait), Execute ends with the TIMEOUT result and the container
\* removed, not with an error.
C28_TimeoutDuringStartIsTimeout ==
    \A w \in Workers :
        ( /\ ExecuteOver(w)
          /\ rt[w].ctxErr = "deadline"
          /\ rt[w].waited = "none" )
        => /\ rt[w].out = "result"
           /\ rt[w].result = TimeoutResult
           /\ rt[w].container \in {"none", "removed"}

\* C29: when GetContainerStats fails after the container has exited,
\* Execute still returns the result the exit code determines: COMPLETED for
\* 0, FAILED otherwise.
C29_StatsFailureStillReturns ==
    \A w \in Workers :
        (ExecuteOver(w) /\ rt[w].stats = "failed")
        => /\ rt[w].out = "result"
           /\ rt[w].result.status =
                 IF rt[w].exitCode = 0 THEN StatusCompleted ELSE StatusFailed

\* The execution of worker w has its staging directory: from MkdirAll to
\* the return of Execute.
Staged(w) == rt[w].pc \in {"simpleWrite", "simpleRun", "simpleWait"}

\* C30: two executions that overlap in time have distinct staging
\* directories, and the code an execution wrote is still in its directory
\* when it runs it: no other execution's cleanup has deleted it.
C30_StagingDirectoryExclusive ==
    /\ \A w1 \in Workers, w2 \in Workers :
          (w1 # w2 /\ Staged(w1) /\ Staged(w2)) => rt[w1].path # rt[w2].path
    /\ \A w \in Workers : rt[w].pc \in {"simpleRun", "simpleWait"} => staging.code

\* C31: no step removes a row from the invocations table, the deletion of
\* the row's function included.
C31_InvocationRowNeverRemoved ==
    [][ \A id \in DOMAIN invocations : id \in DOMAIN invocations' ]_vars

\* C32: an invocation whose Enqueue returned an error after its row was
\* inserted has no message in any list and none held by a worker, was never
\* delivered, and its row is there and PENDING, at every later state.
C32_OrphanStaysPending ==
    \A id \in orphaned :
        /\ ~InReady(id)
        /\ ~InProcessing(id)
        /\ ~InDeadLetter(id)
        /\ \A w \in Workers : ~(Holding(w) /\ msg[w].id = id)
        /\ deliveries[id] = 0
        /\ id \notin acked
        /\ id \in DOMAIN invocations
        /\ invocations[id] = NewInvocation(invocations[id].createdAt)

\* The step is the failure of the row insert of caller c's CreateFunction.
InsertFails(c) == calls[c].pc = "createRow" /\ calls'[c].pc = "createFailed"

\* C33, as claimed: when the row insert of CreateFunction fails, the code
\* stored for the attempt is deleted, and no row and no other function's
\* code is changed.
C33_FailedCreateDeletesBlob ==
    [][ \A c \in Callers :
            InsertFails(c)
            => /\ blobs'[calls[c].fn.source] = NoCode
               /\ functions' = functions
               /\ fnCode' = fnCode
               /\ \A l \in Locations \ {calls[c].fn.source} : blobs'[l] = blobs[l]
      ]_vars

\* C33, amended: the deletion is best effort: the code stored for the
\* attempt is deleted or, when the delete fails, left where it is with no
\* row naming it; no function is registered by the call, no row and no
\* other function's code is changed.
C33_FailedCreateBestEffort ==
    [][ \A c \in Callers :
            InsertFails(c)
            => /\ blobs'[calls[c].fn.source] \in {NoCode, calls[c].code}
               /\ functions' = functions
               /\ \A f \in functions : fnCode[f].source # calls[c].fn.source
               /\ fnCode' = fnCode
               /\ \A l \in Locations \ {calls[c].fn.source} : blobs'[l] = blobs[l]
      ]_vars

\* C33 witness: a CreateFunction call is returning the error of its row
\* insert, its code has been deleted, and another function is registered
\* with its code in the store.
C33_Witness ==
    \E c \in Callers :
        /\ calls[c].pc = "createFailed"
        /\ blobs[calls[c].fn.source] = NoCode
        /\ \E g \in functions :
              /\ fnCode[g].source # calls[c].fn.source
              /\ blobs[fnCode[g].source] # NoCode

\* C34, as claimed: the timeout of an execution is the client's override
\* when one was given, and otherwise the function's timeout as the worker
\* reads it for that execution.
C34_TimeoutOverrideElseFunction ==
    \A i \in 1..MaxInvocations :
        texec[i].pc = "done"
        => texec[i].used = IF texec[i].override # NilTimeout
                           THEN texec[i].override
                           ELSE texec[i].resolved

\* The payloads of the frames, one after the other.
RECURSIVE PayloadsOf(_)
PayloadsOf(frames) ==
    IF frames = <<>> THEN <<>> ELSE Head(frames).payload \o PayloadsOf(Tail(frames))

\* The stream was read without an error and has been stripped.
Stripped == clogs.pc \in {"stripped", "built"} /\ ~clogs.readErr

\* C35: the stripped output of a well-formed multiplexed stream is the
\* concatenation of its frames' payloads in order; an empty stream gives an
\* empty output; exit code 0 with no output is COMPLETED with an empty
\* result.
C35_StrippedIsPayloads ==
    /\ Stripped /\ clogs.raw = Multiplex(clogs.frames)
       => clogs.out = PayloadsOf(clogs.frames)
    /\ Stripped /\ clogs.raw = <<>> => clogs.out = <<>>
    /\ clogs.pc = "built" /\ clogs.exitCode = 0
       => /\ clogs.status = StatusCompleted
          /\ clogs.result = clogs.out
          /\ clogs.out = <<>> => clogs.result = <<>>

\* C35 witness: a well-formed stream of two frames with payloads was
\* stripped and became the result of an execution that exited with 0.
C35_Witness ==
    /\ clogs.pc = "built" /\ clogs.exitCode = 0 /\ ~clogs.readErr
    /\ Len(clogs.frames) = 2
    /\ \A k \in 1..2 : clogs.frames[k].payload # <<>>
    /\ clogs.raw = Multiplex(clogs.frames)
    /\ Len(clogs.raw) > Len(clogs.result)
    /\ clogs.result = clogs.frames[1].payload \o clogs.frames[2].payload

\* C36, as claimed: every invocation whose message a worker has dequeued
\* eventually has a terminal status, when no worker crashes and scheduling
\* is fair.
C36_DequeuedEventuallyTerminal ==
    \A id \in InvocationIDs :
        (deliveries[id] >= 1)
        ~> (id \in DOMAIN invocations /\ IsTerminal(invocations[id].status))

\* Positions of processNextMessage: about to make the queue call that
\* concludes the delivery (Ack; Nack or DeadLetter), and inside the pipeline
\* of that call.
BeforeCall == {"ack", "failed", "invalid"}
InsideCall == {"nackPush", "dlPush"}

\* C37: in the loop of a worker every delivery is concluded by exactly one
\* of Ack, Nack and DeadLetter before the next Dequeue: processNextMessage
\* returns from a delivery only out of such a call, nothing follows the call
\* but the return, and a message is dequeued only by a Dequeue called from
\* the loop after the return. A worker whose process has ended at shutdown
\* dequeues no more.
C37_OneConcludingCall ==
    [][ \A w \in Workers :
            /\ Holding(w) /\ pc'[w] = "idle"
               => pc[w] \in BeforeCall \cup InsideCall
            /\ pc[w] \in BeforeCall /\ pc'[w] # pc[w]
               => pc'[w] \in InsideCall \cup {"idle", "exited"}
            /\ pc[w] \in InsideCall /\ pc'[w] # pc[w] => pc'[w] = "idle"
            /\ pc[w] = "exited" => pc'[w] = "exited"
            /\ pc'[w] \in InsideCall /\ pc'[w] # pc[w] => pc[w] \in BeforeCall
            /\ Holding(w) => (msg'[w] = NilMessage \/ msg'[w].id = msg[w].id)
            /\ pc[w] = "idle" => pc'[w] \in {"idle", "dequeue", "exited"}
            /\ pc[w] = "dequeue" /\ pc'[w] \notin {"dequeue", "idle", "exited"}
               => /\ msg'[w] # NilMessage
                  /\ deliveries'[msg'[w].id] = deliveries[msg'[w].id] + 1
      ]_vars

\* C37 witness: a message was acked, and a worker that dequeued a message
\* for the third time, after two Nacks, is in its DeadLetter call.
C37_Witness ==
    /\ acked # {}
    /\ \E w \in Workers :
          /\ pc[w] = "dlPush"
          /\ deliveries[msg[w].id] = MaxAttempts
          /\ msg[w].id \notin acked

\* C38: a nacked message goes behind every message that is in ready at the
\* time of the Nack: the Nack puts it at the head of the list with the list
\* otherwise as it was, every other step leaves ready alone, puts one
\* message at its head or takes the message at its tail, and the message a
\* worker receives is the one that was at the tail.
C38_NackedGoesToTheBack ==
    [][ /\ \A w \in Workers :
              pc[w] = "nackPush" /\ pc'[w] = "idle"
              => ready' = <<Marshal(msg[w])>> \o ready
        /\ \/ ready' = ready
           \/ Len(ready') = Len(ready) + 1 /\ Tail(ready') = ready
           \/ /\ Len(ready) > 0
              /\ ready' = SubSeq(ready, 1, Len(ready) - 1)
              /\ \E w \in Workers :
                    /\ pc[w] = "dequeue" /\ pc'[w] \notin {"dequeue", "idle"}
                    /\ msg'[w] = DequeueMessage(ready[Len(ready)])
      ]_vars

\* C38 witness: a nacked message is in ready behind a message that was
\* there at the time of the Nack and has not been delivered yet.
C38_Witness ==
    /\ Len(ready) = 2
    /\ Unmarshal(ready[1]).attempts > 0
    /\ deliveries[Unmarshal(ready[1]).id] >= 1
    /\ deliveries[Unmarshal(ready[2]).id] = 0

\* The requests passed on with a timestamp in the window that ends at t.
RECURSIVE PassedIn(_, _)
PassedIn(t, k) ==
    IF k = 0 \/ t - k + 1 < 0 THEN 0
    ELSE passed[t - k + 1] + PassedIn(t, k - 1)

\* C39, as claimed: the requests of one key that are let through within any
\* one window are at most requestsPerWindow.
C39_AtMostLimitPerWindow ==
    \A t \in RateTimes : PassedIn(t, WindowDuration) <= RequestsPerWindow

====
